---------------------------- MODULE Spec2Model ----------------------------
(***************************************************************************)
(* Othello: the rules engine (components.py) and its adapters.             *)
(*                                                                         *)
(* A board is a sequence of rows, each a sequence of cell strings; the     *)
(* Python index board[y0][x0] (0-based) is board[y0 + 1][x0 + 1] here.     *)
(* Python lists [..] are sequences, tuples (x, y) are <<x, y>>.            *)
(***************************************************************************)
EXTENDS Integers, Sequences, FiniteSets, TLC

\* ------------------------------------------------- components.py constants
BOARD_SIZE_DEFAULT == 8

EMPTY == "None "
BLACK == "Black"
WHITE == "White"

\* DIRECTIONS without the direction (0, 1).
DIRECTIONS_WITHOUT_SOUTH ==
    << <<-1, -1>>, <<0, -1>>, <<1, -1>>,
       <<-1,  0>>,            <<1,  0>>,
       <<-1,  1>>,            <<1,  1>> >>

\* DIRECTIONS without the direction (1, 0).
DIRECTIONS_WITHOUT_EAST ==
    << <<-1, -1>>, <<0, -1>>, <<1, -1>>,
       <<-1,  0>>,
       <<-1,  1>>, <<0,  1>>, <<1,  1>> >>

DIRECTIONS ==
    << <<-1, -1>>, <<0, -1>>, <<1, -1>>,
       <<-1,  0>>,            <<1,  0>>,
       <<-1,  1>>, <<0,  1>>, <<1,  1>> >>

\* --------------------------------------------------------- Python helpers
\* str.strip() on the strings that occur as cells and colour arguments: the
\* surrounding whitespace is removed, a string without any is returned as is.
Strip(s) ==
    CASE s = "None "   -> "None"
      [] s = " Black " -> "Black"
      [] s = " White " -> "White"
      [] s = " black " -> "black"
      [] s = " "       -> ""
      [] OTHER         -> s

\* list[i]: a Python index into a list of length n, as a 1-based position;
\* negative indices count from the end, 0 stands for IndexError.
PyIndex(i, n) ==
    IF 0 <= i /\ i < n THEN i + 1
    ELSE IF -n <= i /\ i < 0 THEN i + n + 1
    ELSE 0

\* ----------------------------------------------------------- components.py
\* initialise_board with the two middle indices taken one too far.
initialise_board_shifted(size) ==
    LET mid1 == size \div 2
        mid2 == (size \div 2) + 1
    IN [y \in 1..size |-> [x \in 1..size |->
          IF (y = mid1 + 1 /\ x = mid1 + 1) \/ (y = mid2 + 1 /\ x = mid2 + 1)
            THEN WHITE
          ELSE IF (y = mid1 + 1 /\ x = mid2 + 1) \/ (y = mid2 + 1 /\ x = mid1 + 1)
            THEN BLACK
          ELSE EMPTY]]

\* initialise_board(size)
initialise_board(size) ==
    LET mid1 == (size \div 2) - 1
        mid2 == size \div 2
    IN [y \in 1..size |-> [x \in 1..size |->
          IF (y = mid1 + 1 /\ x = mid1 + 1) \/ (y = mid2 + 1 /\ x = mid2 + 1)
            THEN WHITE
          ELSE IF (y = mid1 + 1 /\ x = mid2 + 1) \/ (y = mid2 + 1 /\ x = mid1 + 1)
            THEN BLACK
          ELSE EMPTY]]

\* board[y0][x0] as Python evaluates it: an index in -size..-1 counts from the
\* end, any other index outside 0..size-1 raises IndexError.
Cell(board, x0, y0) ==
    LET yi == PyIndex(y0, Len(board))
        xi == IF yi = 0 THEN 0 ELSE PyIndex(x0, Len(board[yi]))
    IN IF yi = 0 \/ xi = 0 THEN "IndexError" ELSE board[yi][xi]

\* WalkLine with the bracket forgotten: the run collected is returned also
\* when it ends on an empty cell or at the edge.
RECURSIVE WalkLineLoose(_, _, _, _, _, _, _, _)
WalkLineLoose(board, me, other, cx, cy, dx, dy, line) ==
    LET size == Len(board) IN
    IF ~(0 <= cx /\ cx < size /\ 0 <= cy /\ cy < size)
      THEN [raised |-> FALSE, line |-> line]
    ELSE LET cell == Strip(Cell(board, cx, cy))
         IN IF cell = other
              THEN WalkLineLoose(board, me, other, cx + dx, cy + dy, dx, dy,
                                 Append(line, <<cx, cy>>))
            ELSE [raised |-> FALSE, line |-> line]

\* The while loop of _discs_to_flip (lines 95-107) for one direction, from
\* (cx, cy) with the opponent tiles collected so far in line. The result is
\* what the loop adds to flips: line on reaching the mover's tile, nothing on
\* an empty tile or on leaving the board; raised if a cell read fails.
RECURSIVE WalkLine(_, _, _, _, _, _, _, _)
WalkLine(board, me, other, cx, cy, dx, dy, line) ==
    LET size == Len(board) IN
    IF ~(0 <= cx /\ cx < size /\ 0 <= cy /\ cy < size)
      THEN [raised |-> FALSE, line |-> << >>]
    ELSE LET read == Cell(board, cx, cy)
             cell == Strip(read)
         IN IF read = "IndexError" THEN [raised |-> TRUE, line |-> << >>]
            ELSE IF cell = other
              THEN WalkLine(board, me, other, cx + dx, cy + dy, dx, dy,
                            Append(line, <<cx, cy>>))
            ELSE IF cell = me THEN [raised |-> FALSE, line |-> line]
            ELSE [raised |-> FALSE, line |-> << >>]

\* The for loop over DIRECTIONS (lines 90-107), from direction number d on,
\* with the list flips built so far.
RECURSIVE FlipsFrom(_, _, _, _, _, _, _)
FlipsFrom(board, me, other, x0, y0, d, flips) ==
    IF d > Len(DIRECTIONS) THEN [raised |-> FALSE, flips |-> flips]
    ELSE LET dx == DIRECTIONS[d][1]
             dy == DIRECTIONS[d][2]
             w  == WalkLine(board, me, other, x0 + dx, y0 + dy, dx, dy, << >>)
         IN IF w.raised THEN [raised |-> TRUE, flips |-> << >>]
            ELSE FlipsFrom(board, me, other, x0, y0, d + 1, flips \o w.line)

\* DiscsToFlipCall with the colour compared as given, without strip().
DiscsToFlipCallExactColour(board, colour, x0, y0) ==
    LET size == Len(board) IN
    IF ~(0 <= x0 /\ x0 < size /\ 0 <= y0 /\ y0 < size)
      THEN [raised |-> FALSE, flips |-> << >>]
    ELSE LET read == Cell(board, x0, y0) IN
         IF read = "IndexError" THEN [raised |-> TRUE, flips |-> << >>]
         ELSE IF Strip(read) # "None" THEN [raised |-> FALSE, flips |-> << >>]
         ELSE LET me == colour IN
              IF me \notin {"Black", "White"}
                THEN [raised |-> FALSE, flips |-> << >>]
              ELSE LET other == IF me = "Black" THEN "White" ELSE "Black"
                   IN FlipsFrom(board, me, other, x0, y0, 1, << >>)

\* DiscsToFlipCall without the occupied-cell check of lines 78-79.
DiscsToFlipCallOccupied(board, colour, x0, y0) ==
    LET size == Len(board) IN
    IF ~(0 <= x0 /\ x0 < size /\ 0 <= y0 /\ y0 < size)
      THEN [raised |-> FALSE, flips |-> << >>]
    ELSE LET me == Strip(colour) IN
         IF me \notin {"Black", "White"}
           THEN [raised |-> FALSE, flips |-> << >>]
         ELSE LET other == IF me = "Black" THEN "White" ELSE "Black"
              IN FlipsFrom(board, me, other, x0, y0, 1, << >>)

\* DiscsToFlipCall without the bounds check of line 75.
DiscsToFlipCallUnguarded(board, colour, x0, y0) ==
    LET read == Cell(board, x0, y0) IN
    IF read = "IndexError" THEN [raised |-> TRUE, flips |-> << >>]
    ELSE IF Strip(read) # "None" THEN [raised |-> FALSE, flips |-> << >>]
    ELSE LET me == Strip(colour) IN
         IF me \notin {"Black", "White"}
           THEN [raised |-> FALSE, flips |-> << >>]
         ELSE LET other == IF me = "Black" THEN "White" ELSE "Black"
              IN FlipsFrom(board, me, other, x0, y0, 1, << >>)

\* _discs_to_flip(board, colour, x0, y0) as a call: the list it returns, or
\* raised when an index it takes is out of range.
DiscsToFlipCall(board, colour, x0, y0) ==
    LET size == Len(board) IN
    IF ~(0 <= x0 /\ x0 < size /\ 0 <= y0 /\ y0 < size)
      THEN [raised |-> FALSE, flips |-> << >>]
    ELSE LET read == Cell(board, x0, y0) IN
         IF read = "IndexError" THEN [raised |-> TRUE, flips |-> << >>]
         ELSE IF Strip(read) # "None" THEN [raised |-> FALSE, flips |-> << >>]
         ELSE LET me == Strip(colour) IN
              IF me \notin {"Black", "White"}
                THEN [raised |-> FALSE, flips |-> << >>]
              ELSE LET other == IF me = "Black" THEN "White" ELSE "Black"
                   IN FlipsFrom(board, me, other, x0, y0, 1, << >>)

\* The value of _discs_to_flip(board, colour, x0, y0).
_discs_to_flip(board, colour, x0, y0) ==
    DiscsToFlipCall(board, colour, x0, y0).flips

\* LegalMoveCall with >= 0 for > 0 in line 120.
LegalMoveCallNoFlips(colour, coord, board) ==
    LET x0 == coord[1] - 1
        y0 == coord[2] - 1
    IN IF ~(0 <= x0 /\ x0 < Len(board) /\ 0 <= y0 /\ y0 < Len(board))
         THEN [raised |-> FALSE, ret |-> FALSE, board |-> board]
       ELSE LET f == DiscsToFlipCall(board, colour, x0, y0)
            IN [raised |-> f.raised, ret |-> Len(f.flips) >= 0, board |-> board]

\* LegalMoveCall trying the move on the board itself: the disc it places to
\* look for flips stays on the board.
LegalMoveCallTrial(colour, coord, board) ==
    LET x0 == coord[1] - 1
        y0 == coord[2] - 1
    IN IF ~(0 <= x0 /\ x0 < Len(board) /\ 0 <= y0 /\ y0 < Len(board))
         THEN [raised |-> FALSE, ret |-> FALSE, board |-> board]
       ELSE LET f == DiscsToFlipCall(board, colour, x0, y0)
            IN [raised |-> f.raised, ret |-> Len(f.flips) > 0,
                board |-> IF Len(f.flips) > 0
                            THEN [board EXCEPT ![y0 + 1][x0 + 1] = Strip(colour)]
                          ELSE board]

\* legal_move(colour, coord, board) as a call: what it returns and the board
\* it leaves (it writes no cell).
LegalMoveCall(colour, coord, board) ==
    LET x0 == coord[1] - 1
        y0 == coord[2] - 1
    IN IF ~(0 <= x0 /\ x0 < Len(board) /\ 0 <= y0 /\ y0 < Len(board))
         THEN [raised |-> FALSE, ret |-> FALSE, board |-> board]
       ELSE LET f == DiscsToFlipCall(board, colour, x0, y0)
            IN [raised |-> f.raised, ret |-> Len(f.flips) > 0, board |-> board]

\* The value of legal_move(colour, coord, board).
legal_move(colour, coord, board) == LegalMoveCall(colour, coord, board).ret

\* SetCells flipping the nearest disc only.
SetCellsNearest(board, flips, piece) ==
    [y \in 1..Len(board) |-> [x \in 1..Len(board[y]) |->
        IF Len(flips) > 0 /\ <<x - 1, y - 1>> = flips[1] THEN piece
        ELSE board[y][x]]]

\* The for loop of apply_move (lines 134-135): board[fy][fx] = piece for every
\* disc of flips.
SetCells(board, flips, piece) ==
    LET S == {flips[k] : k \in 1..Len(flips)}
    IN [y \in 1..Len(board) |-> [x \in 1..Len(board[y]) |->
          IF <<x - 1, y - 1>> \in S THEN piece ELSE board[y][x]]]

\* ApplyMoveCall counting the placed disc among the flipped ones.
ApplyMoveCallCountsPlaced(colour, coord, board) ==
    LET x0 == coord[1] - 1
        y0 == coord[2] - 1
        flips == _discs_to_flip(board, colour, x0, y0)
        piece == IF colour = "Black" THEN BLACK ELSE WHITE
        yi == PyIndex(y0, Len(board))
        xi == IF yi = 0 THEN 0 ELSE PyIndex(x0, Len(board[yi]))
    IN IF yi = 0 \/ xi = 0
         THEN [raised |-> TRUE, ret |-> 0, board |-> board]
       ELSE [raised |-> FALSE, ret |-> Len(flips) + 1,
             board |-> [y \in 1..Len(board) |-> [x \in 1..Len(board[y]) |->
                          IF <<x, y>> = <<xi, yi>>
                             \/ <<x - 1, y - 1>> \in {flips[k] : k \in 1..Len(flips)}
                            THEN piece
                          ELSE board[y][x]]]]

\* ApplyMoveCall writing the marks print_board shows, B and W, for the cell
\* values.
ApplyMoveCallMarks(colour, coord, board) ==
    LET x0 == coord[1] - 1
        y0 == coord[2] - 1
        flips == _discs_to_flip(board, colour, x0, y0)
        piece == IF colour = "Black" THEN "B" ELSE "W"
        yi == PyIndex(y0, Len(board))
        xi == IF yi = 0 THEN 0 ELSE PyIndex(x0, Len(board[yi]))
    IN IF yi = 0 \/ xi = 0
         THEN [raised |-> TRUE, ret |-> 0, board |-> board]
       ELSE [raised |-> FALSE, ret |-> Len(flips),
             board |-> SetCells([board EXCEPT ![yi][xi] = piece], flips, piece)]

\* ApplyMoveCall without line 133: the discs are flipped and the played cell
\* is left empty.
ApplyMoveCallNoPlace(colour, coord, board) ==
    LET x0 == coord[1] - 1
        y0 == coord[2] - 1
        flips == _discs_to_flip(board, colour, x0, y0)
        piece == IF colour = "Black" THEN BLACK ELSE WHITE
        yi == PyIndex(y0, Len(board))
        xi == IF yi = 0 THEN 0 ELSE PyIndex(x0, Len(board[yi]))
    IN IF yi = 0 \/ xi = 0
         THEN [raised |-> TRUE, ret |-> 0, board |-> board]
       ELSE [raised |-> FALSE, ret |-> Len(flips),
             board |-> SetCells(board, flips, piece)]

\* apply_move(colour, coord, board) as a call: the board it leaves, the count
\* it returns, or raised when board[y0][x0] = piece is out of range (nothing
\* has been written by then).
ApplyMoveCall(colour, coord, board) ==
    LET x0 == coord[1] - 1
        y0 == coord[2] - 1
        flips == _discs_to_flip(board, colour, x0, y0)
        piece == IF colour = "Black" THEN BLACK ELSE WHITE
        yi == PyIndex(y0, Len(board))
        xi == IF yi = 0 THEN 0 ELSE PyIndex(x0, Len(board[yi]))
    IN IF yi = 0 \/ xi = 0
         THEN [raised |-> TRUE, ret |-> 0, board |-> board]
       ELSE [raised |-> FALSE, ret |-> Len(flips),
             board |-> SetCells([board EXCEPT ![yi][xi] = piece], flips, piece)]

\* The inner loop of has_any_legal_moves (lines 66-68) for the row y, from
\* the column x on: x runs over range(1, size + 1). Every legal_move call is
\* made on the board the call before it left.
RECURSIVE ScanRow(_, _, _, _)
ScanRow(colour, board, x, y) ==
    IF x >= Len(board) + 1 THEN [ret |-> FALSE, board |-> board]
    ELSE LET r == LegalMoveCall(colour, <<x, y>>, board)
         IN IF r.ret THEN [ret |-> TRUE, board |-> r.board]
            ELSE ScanRow(colour, r.board, x + 1, y)

\* ScanFrom with range(1, size) for range(1, size + 1): the last row and the
\* last column are not scanned.
RECURSIVE ScanFromShort(_, _, _, _)
ScanFromShort(colour, board, x, y) ==
    LET size == Len(board) IN
    IF y >= size THEN [ret |-> FALSE, board |-> board]
    ELSE IF x >= size THEN ScanFromShort(colour, board, 1, y + 1)
    ELSE LET r == LegalMoveCall(colour, <<x, y>>, board)
         IN IF r.ret THEN [ret |-> TRUE, board |-> r.board]
            ELSE ScanFromShort(colour, r.board, x + 1, y)

\* The loops of has_any_legal_moves (lines 65-69) from the cell (x, y) on:
\* y runs over range(1, size + 1) and, inside it, x over range(1, size + 1).
RECURSIVE ScanFrom(_, _, _, _)
ScanFrom(colour, board, x, y) ==
    LET Rest(row) == IF row.ret THEN row
                     ELSE ScanFrom(colour, row.board, 1, y + 1)
    IN IF y >= Len(board) + 1 THEN [ret |-> FALSE, board |-> board]
       ELSE Rest(ScanRow(colour, board, x, y))

\* HasAnyLegalMovesCall answering after the first cell it tries.
HasAnyLegalMovesCallFirstCell(colour, board) ==
    LET r == LegalMoveCall(colour, <<1, 1>>, board)
    IN [ret |-> r.ret, board |-> r.board]

\* has_any_legal_moves(colour, board) as a call.
HasAnyLegalMovesCall(colour, board) == ScanFrom(colour, board, 1, 1)

\* The value of has_any_legal_moves(colour, board).
has_any_legal_moves(colour, board) == HasAnyLegalMovesCall(colour, board).ret

\* count_pieces(board): <<black, white>>.
count_pieces(board) ==
    LET cells == (1..Len(board)) \X (1..Len(board))
        black == Cardinality({c \in cells : Strip(board[c[2]][c[1]]) = "Black"})
        white == Cardinality({c \in cells : Strip(board[c[2]][c[1]]) = "White"})
    IN <<black, white>>

\* ------------------------------------------------------------ flask_engine.py
\* IsGameFinishedCall with or for and: finished when either colour is stuck.
IsGameFinishedCallEither(board) ==
    LET b == HasAnyLegalMovesCall("Black", board) IN
    IF ~b.ret THEN [ret |-> TRUE, board |-> b.board]
    ELSE LET w == HasAnyLegalMovesCall("White", b.board)
         IN [ret |-> ~w.ret, board |-> w.board]

\* IsGameFinishedCall taking the game to be over when the board is full.
IsGameFinishedCallFullBoard(board) ==
    [ret |-> \A y \in 1..Len(board) : \A x \in 1..Len(board[y]) :
                Strip(board[y][x]) # "None",
     board |-> board]

\* is_game_finished(board) as a call: Black is asked first, White only if
\* Black has no move.
IsGameFinishedCall(board) ==
    LET AskWhite(w) == IF ~w.ret THEN [ret |-> TRUE, board |-> w.board]
                       ELSE [ret |-> FALSE, board |-> w.board]
        AskBlack(b) == IF ~b.ret
                         THEN AskWhite(HasAnyLegalMovesCall("White", b.board))
                       ELSE [ret |-> FALSE, board |-> b.board]
    IN AskBlack(HasAnyLegalMovesCall("Black", board))

\* The value of is_game_finished(board).
is_game_finished(board) == IsGameFinishedCall(board).ret

\* other_colour(colour)
other_colour(colour) == IF colour = "Black" THEN "White" ELSE "Black"

\* str(n) for an integer, as the sequence of its characters.
RECURSIVE Str(_)
Str(n) ==
    LET Digit == <<"0", "1", "2", "3", "4", "5", "6", "7", "8", "9">> IN
    IF n < 0 THEN <<"-">> \o Str(-n)
    ELSE IF n < 10 THEN <<Digit[n + 1]>>
    ELSE Str(n \div 10) \o <<Digit[(n % 10) + 1]>>

\* The whitespace characters of the texts modelled: the blank and the tab.
Whitespace == {" ", "\t"}

\* text.strip(): the text without its leading and trailing whitespace.
RECURSIVE StripText(_)
StripText(text) ==
    IF text = << >> THEN text
    ELSE IF Head(text) \in Whitespace THEN StripText(Tail(text))
    ELSE IF text[Len(text)] \in Whitespace
      THEN StripText(SubSeq(text, 1, Len(text) - 1))
    ELSE text

\* text.replace(ch, ""): the text without the character ch.
Remove(text, ch) == SelectSeq(text, LAMBDA c : c # ch)

\* The number written by the decimal digits of text, or not ok when text
\* holds another character.
RECURSIVE DigitsValue(_, _)
DigitsValue(text, acc) ==
    LET Digit == <<"0", "1", "2", "3", "4", "5", "6", "7", "8", "9">> IN
    IF text = << >> THEN [ok |-> TRUE, val |-> acc]
    ELSE IF \E d \in 1..10 : Digit[d] = Head(text)
      THEN DigitsValue(Tail(text),
                       10 * acc + (CHOOSE d \in 1..10 : Digit[d] = Head(text)) - 1)
    ELSE [ok |-> FALSE, val |-> 0]

\* int(text) for a text given as the sequence of its characters: whitespace
\* at either end is skipped, one sign may come first, and the digits may be
\* separated by single underscores; ValueError (ok = FALSE) for the empty
\* text and for any other text.
ParseInt(text) ==
    LET t == StripText(text)
        signed == t # << >> /\ Head(t) \in {"+", "-"}
        body == IF signed THEN Tail(t) ELSE t
        grouped == /\ body # << >>
                   /\ Head(body) # "_"
                   /\ body[Len(body)] # "_"
                   /\ \A k \in 1..(Len(body) - 1) :
                        ~(body[k] = "_" /\ body[k + 1] = "_")
        v == DigitsValue(Remove(body, "_"), 0)
    IN IF ~grouped \/ ~v.ok THEN [ok |-> FALSE, val |-> 0]
       ELSE [ok |-> TRUE, val |-> IF Head(t) = "-" THEN 0 - v.val ELSE v.val]

\* coord_to_notation with the row written before the column letter.
coord_to_notation_row_first(x, y) ==
    LET Chr64 == <<"@", "A", "B", "C", "D", "E", "F", "G", "H", "I">>
    IN Str(y) \o <<Chr64[x + 1]>>

\* coord_to_notation(x, y): chr(ord("A") + x - 1) followed by str(y), as a
\* sequence of characters; the characters chr gives for x in 0..9.
coord_to_notation(x, y) ==
    LET Chr64 == <<"@", "A", "B", "C", "D", "E", "F", "G", "H", "I">>
    IN <<Chr64[x + 1]>> \o Str(y)

\* The pass handling of move (lines 133-145): the player to move after
\* current has moved on board.
NextPlayerAlternate(colour, board) == other_colour(colour)

NextPlayer(colour, board) ==
    LET opponent == other_colour(colour) IN
    IF has_any_legal_moves(opponent, board) THEN opponent
    ELSE IF has_any_legal_moves(colour, board) THEN colour
    ELSE opponent

\* pass_info set whenever the opponent has no legal move, the mover's own
\* moves not looked at.
PassInfoOpponentOnly(colour, board) ==
    ~has_any_legal_moves(other_colour(colour), board)

\* pass_info of move (lines 134-142) is not empty.
PassInfo(colour, board) ==
    /\ ~has_any_legal_moves(other_colour(colour), board)
    /\ has_any_legal_moves(colour, board)

\* winner with >= for >: equal counts are given to Black.
winner_ties_to_black(black, white) ==
    IF black >= white THEN "Black wins!"
    ELSE IF white > black THEN "White wins!"
    ELSE "It's a draw!"

\* The winner named in the finished summary of /move, from the counts of
\* count_pieces (lines 154-160).
winner(black, white) ==
    IF black > white THEN "Black wins!"
    ELSE IF white > black THEN "White wins!"
    ELSE "It's a draw!"

\* ------------------------------------------------------------ game_engine.py
\* The letters, lower case and upper case, in the order of their codes.
LowerCase ==
    <<"a", "b", "c", "d", "e", "f", "g", "h", "i", "j", "k", "l", "m",
      "n", "o", "p", "q", "r", "s", "t", "u", "v", "w", "x", "y", "z">>

UpperCase ==
    <<"A", "B", "C", "D", "E", "F", "G", "H", "I", "J", "K", "L", "M",
      "N", "O", "P", "Q", "R", "S", "T", "U", "V", "W", "X", "Y", "Z">>

\* text.upper() and text.lower() for a text given as the sequence of its
\* characters.
Upper(text) ==
    [k \in 1..Len(text) |->
       IF \E n \in 1..26 : LowerCase[n] = text[k]
         THEN UpperCase[CHOOSE n \in 1..26 : LowerCase[n] = text[k]]
       ELSE text[k]]

Lower(text) ==
    [k \in 1..Len(text) |->
       IF \E n \in 1..26 : UpperCase[n] = text[k]
         THEN LowerCase[CHOOSE n \in 1..26 : UpperCase[n] = text[k]]
       ELSE text[k]]

\* parse_letter_number_input that removes every whitespace character, the
\* tab as the blank, before it looks at the text.
parse_letter_number_input_no_whitespace(raw) ==
    LET text == Upper(Remove(Remove(Remove(StripText(raw), ","), " "), "\t"))
        fail == [ok |-> FALSE, x |-> 0, y |-> 0]
    IN IF Len(text) < 2 THEN fail
       ELSE IF ~(\E n \in 1..8 : UpperCase[n] = text[1]) THEN fail
       ELSE LET x == CHOOSE n \in 1..8 : UpperCase[n] = text[1]
                row == ParseInt(Tail(text))
            IN IF ~row.ok THEN fail
               ELSE IF ~(1 <= row.val /\ row.val <= 8) THEN fail
               ELSE [ok |-> TRUE, x |-> x, y |-> row.val]

\* parse_letter_number_input(raw): ok with the 1-based (x, y), or ValueError
\* (ok = FALSE).
parse_letter_number_input(raw) ==
    LET text == Upper(Remove(Remove(StripText(raw), ","), " "))
        fail == [ok |-> FALSE, x |-> 0, y |-> 0]
    IN IF Len(text) < 2 THEN fail
       ELSE IF ~(\E n \in 1..8 : UpperCase[n] = text[1]) THEN fail
       ELSE LET x == CHOOSE n \in 1..8 : UpperCase[n] = text[1]
                row == ParseInt(Tail(text))
            IN IF ~row.ok THEN fail
               ELSE IF ~(1 <= row.val /\ row.val <= 8) THEN fail
               ELSE [ok |-> TRUE, x |-> x, y |-> row.val]

\* CliHead that never passes the turn: the player to move is prompted
\* whenever the other player or that player can move.
CliHeadWithoutPass(board, colour, remaining, plies) ==
    IF ~(remaining > 0)
      THEN [board |-> board, current |-> colour, remaining |-> remaining,
            at |-> "done", said |-> "", plies |-> plies]
    ELSE IF ~has_any_legal_moves(colour, board)
              /\ ~has_any_legal_moves(other_colour(colour), board)
      THEN [board |-> board, current |-> colour, remaining |-> remaining,
            at |-> "done", said |-> "no legal moves", plies |-> plies]
    ELSE [board |-> board, current |-> colour, remaining |-> remaining,
          at |-> "prompt", said |-> "", plies |-> plies]

\* simple_game_loop from its loop test to the prompt (lines 74-87) as a
\* function of the loop's variables: the loop left (at = "done"), or the
\* prompt reached for the player to move, who is the other player after a
\* pass; plies counts the moves applied.
CliHead(board, colour, remaining, plies) ==
    LET Asked(mine) ==
          IF mine.ret
            THEN [board |-> mine.board, current |-> colour,
                  remaining |-> remaining, at |-> "prompt", said |-> "",
                  plies |-> plies]
          ELSE LET Passed(theirs) ==
                     IF ~theirs.ret
                       THEN [board |-> theirs.board, current |-> colour,
                             remaining |-> remaining, at |-> "done",
                             said |-> "no legal moves", plies |-> plies]
                     ELSE [board |-> theirs.board,
                           current |-> other_colour(colour),
                           remaining |-> remaining, at |-> "prompt",
                           said |-> "passes", plies |-> plies]
               IN Passed(HasAnyLegalMovesCall(other_colour(colour),
                                              mine.board))
    IN IF ~(remaining > 0)
         THEN [board |-> board, current |-> colour, remaining |-> remaining,
               at |-> "done", said |-> "", plies |-> plies]
       ELSE Asked(HasAnyLegalMovesCall(colour, board))

\* simple_game_loop from the prompt on (lines 89-102 with lines 48-57), for
\* the text typed at the prompt in the state cli of the loop, up to the next
\* prompt or the end of the loop.
CliTyped(cli, text) ==
    LET Parsed(coord) ==
          IF ~coord.ok THEN [cli EXCEPT !.said = "Invalid input"]
          ELSE LET Judged(legal) ==
                     IF ~legal.ret
                       THEN [cli EXCEPT !.board = legal.board,
                                        !.said = "Illegal move"]
                     ELSE LET Applied(a) ==
                                IF cli.remaining - 1 = 0
                                  THEN [board |-> a.board,
                                        current |-> cli.current,
                                        remaining |-> 0, at |-> "done",
                                        said |-> "Move applied",
                                        plies |-> cli.plies + 1]
                                ELSE CliHead(a.board,
                                             other_colour(cli.current),
                                             cli.remaining - 1,
                                             cli.plies + 1)
                          IN Applied(ApplyMoveCall(cli.current,
                                                   <<coord.x, coord.y>>,
                                                   legal.board))
               IN Judged(LegalMoveCall(cli.current, <<coord.x, coord.y>>,
                                       cli.board))
    IN IF Lower(StripText(text)) \in {<<"q">>, <<"q", "u", "i", "t">>,
                                      <<"e", "x", "i", "t">>}
         THEN [cli EXCEPT !.at = "exit", !.said = "Goodbye!"]
       ELSE Parsed(parse_letter_number_input(StripText(text)))

\* The result simple_game_loop prints after the loop (lines 109-117).
CliResult(black, white) ==
    IF black > white THEN "Black wins!"
    ELSE IF white > black THEN "White wins!"
    ELSE "It's a draw!"

\* ----------------------------------------------------------------- state
\* board is the board the engine is handed (game_state["board"] in the web
\* adapter); current, move_history and game_finished are the other keys of the
\* web adapter's game_state; last is the last call or request made, with its
\* arguments and its outcome; moves_remaining is the counter of the command-line
\* game loop (0 where no such loop runs); inflight holds, for each thread of a
\* threaded server, the /move request it is serving (empty where requests are
\* served one at a time, and, where a command-line game is run beside a web
\* session, the state of that game); savefile is what the file savegame.json
\* holds; extra
\* holds the keys of game_state other than the four above, each with its
\* value; board_obj is the identity of the list object game_state["board"]
\* refers to (0 where there is no game_state).
VARIABLES board, current, move_history, game_finished, last, moves_remaining,
          inflight, savefile, extra, board_obj

vars ==
    <<board, current, move_history, game_finished, last, moves_remaining,
      inflight, savefile, extra, board_obj>>

\* There is no file savegame.json: open() raises FileNotFoundError.
NoFile == [kind |-> "missing"]

\* ------------------------------------------------------------------ bounds
\* Largest number of discs on a board the engine is first called with.
MaxDiscs == 4
\* Number of moves of a web game, from its start, explored in full.
FreePly == 3
\* Largest side of a board made by initialise_board(size).
MaxSide == 8
\* Number of moves played on a board made by initialise_board(size).
MaxPlies == 2
\* Number of /move requests, in flight or applied, of a threaded session.
MaxConcMoves == 2
\* Number of identities a board object of the web adapter can have.
MaxBoards == 2
\* Length the move history of a session with a save file on disk is played to.
MaxLoadPly == 2
\* The longest text typed at the prompt, the examples apart.
MaxParseLen == 4
\* Number of moves applied in a session that saves and loads.
MaxSavePly == 9

\* ------------------------------------------- the rules engine, called directly
\* Side of the boards the engine is called with, and of the corner square
\* that holds their discs.
SIZE == BOARD_SIZE_DEFAULT \div 2
Corner == SIZE - 1

\* Colour arguments: the canonical colours, a padded one and an invalid one.
Colours == {"Black", "White", " Black ", "Red"}

\* 1-based coordinates, from one below the board to one beyond it.
Coords == (0..(SIZE + 1)) \X (0..(SIZE + 1))

\* The board of side SIZE with the discs col[p] at the cells p of S.
BoardOf(S, col) ==
    [y \in 1..SIZE |-> [x \in 1..SIZE |->
        IF <<x, y>> \in S THEN col[<<x, y>>] ELSE EMPTY]]

NoCall ==
    [op |-> "none", colour |-> "", coord |-> <<0, 0>>, raised |-> FALSE,
     ret |-> 0, before |-> << >>]

\* Any board of side SIZE with at most MaxDiscs discs, all in the corner
\* square; no web session.
Init ==
    /\ \E S \in {T \in SUBSET ((1..Corner) \X (1..Corner)) :
                   Cardinality(T) <= MaxDiscs} :
         \E col \in [S -> {BLACK, WHITE}] : board = BoardOf(S, col)
    /\ current = ""
    /\ move_history = << >>
    /\ game_finished = FALSE
    /\ moves_remaining = 0
    /\ inflight = << >>
    /\ last = NoCall
    /\ savefile = NoFile
    /\ extra = {}
    /\ board_obj = 0

\* _discs_to_flip(board, colour, x0, y0), with the 0-based (x0, y0) = coord - 1
CallDiscsToFlip ==
    /\ last.op = "none"
    /\ \E colour \in Colours, coord \in Coords :
       \E r \in {DiscsToFlipCall(board, colour, coord[1] - 1, coord[2] - 1)} :
         /\ last' = [op |-> "_discs_to_flip", colour |-> colour,
                     coord |-> <<coord[1] - 1, coord[2] - 1>>,
                     raised |-> r.raised, ret |-> r.flips, before |-> board]
    /\ UNCHANGED <<board, current, move_history, game_finished,
                 moves_remaining, inflight>>
    /\ UNCHANGED <<savefile, extra, board_obj>>

\* legal_move(colour, coord, board)
CallLegalMove ==
    /\ last.op = "none"
    /\ \E colour \in Colours, coord \in Coords :
       \E r \in {LegalMoveCall(colour, coord, board)} :
         /\ board' = r.board
         /\ last' = [op |-> "legal_move", colour |-> colour, coord |-> coord,
                     raised |-> r.raised, ret |-> r.ret, before |-> board]
    /\ UNCHANGED <<current, move_history, game_finished,
                          moves_remaining, inflight>>
    /\ UNCHANGED <<savefile, extra, board_obj>>

\* apply_move(colour, coord, board)
CallApplyMove ==
    /\ last.op = "none"
    /\ \E colour \in Colours, coord \in Coords :
       \E r \in {ApplyMoveCall(colour, coord, board)} :
         /\ board' = r.board
         /\ last' = [op |-> "apply_move", colour |-> colour, coord |-> coord,
                     raised |-> r.raised, ret |-> r.ret, before |-> board]
    /\ UNCHANGED <<current, move_history, game_finished,
                          moves_remaining, inflight>>
    /\ UNCHANGED <<savefile, extra, board_obj>>

\* has_any_legal_moves(colour, board)
CallHasAnyLegalMoves ==
    /\ last.op = "none"
    /\ \E colour \in Colours :
       \E r \in {HasAnyLegalMovesCall(colour, board)} :
         /\ board' = r.board
         /\ last' = [op |-> "has_any_legal_moves", colour |-> colour,
                     coord |-> <<0, 0>>, raised |-> FALSE, ret |-> r.ret,
                     before |-> board]
    /\ UNCHANGED <<current, move_history, game_finished,
                          moves_remaining, inflight>>
    /\ UNCHANGED <<savefile, extra, board_obj>>

\* is_game_finished(board)
CallIsGameFinished ==
    /\ last.op = "none"
    /\ \E r \in {IsGameFinishedCall(board)} :
         /\ board' = r.board
         /\ last' = [op |-> "is_game_finished", colour |-> "",
                     coord |-> <<0, 0>>, raised |-> FALSE, ret |-> r.ret,
                     before |-> board]
    /\ UNCHANGED <<current, move_history, game_finished,
                          moves_remaining, inflight>>
    /\ UNCHANGED <<savefile, extra, board_obj>>

\* count_pieces(board): it reads the cells and writes none.
CallCountPieces ==
    /\ last.op = "none"
    /\ last' = [op |-> "count_pieces", colour |-> "", coord |-> <<0, 0>>,
                raised |-> FALSE, ret |-> count_pieces(board), before |-> board]
    /\ UNCHANGED <<board, current, move_history, game_finished,
                 moves_remaining, inflight>>
    /\ UNCHANGED <<savefile, extra, board_obj>>

\* One call on each board.
Next ==
    \/ CallDiscsToFlip
    \/ CallLegalMove
    \/ CallApplyMove
    \/ CallHasAnyLegalMoves
    \/ CallIsGameFinished
    \/ CallCountPieces

Spec == Init /\ [][Next]_vars

\* ------------------------------------------- the engine on boards with no
\* empty cell
\* The values of the cells of a full board: the two colours, and the "W" of
\* the full board of the adapter's tests.
FullValues == {BLACK, WHITE, "W"}

\* The boards with no empty cell: every board of side 2 over FullValues, every
\* board of side Corner over the two colours, and the board of side SIZE that
\* holds "W" everywhere.
FullBoards ==
    [1..2 -> [1..2 -> FullValues]]
      \cup [1..Corner -> [1..Corner -> {BLACK, WHITE}]]
      \cup {[y \in 1..SIZE |-> [x \in 1..SIZE |-> "W"]]}

FullInit ==
    /\ board \in FullBoards
    /\ current = ""
    /\ move_history = << >>
    /\ game_finished = FALSE
    /\ moves_remaining = 0
    /\ inflight = << >>
    /\ last = NoCall
    /\ savefile = NoFile
    /\ extra = {}
    /\ board_obj = 0

\* One read-only call on each full board.
FullNext ==
    \/ CallDiscsToFlip
    \/ CallLegalMove
    \/ CallHasAnyLegalMoves
    \/ CallIsGameFinished

FullSpec == FullInit /\ [][FullNext]_vars

\* ------------------------------------------- boards of any size, played on
\* The sizes initialise_board is called with: from the smallest board that has
\* the four middle cells up.
BoardSizes == 2..MaxSide

\* No board has been made yet.
BoardInit ==
    /\ board = << >>
    /\ current = ""
    /\ move_history = << >>
    /\ game_finished = FALSE
    /\ moves_remaining = 0
    /\ inflight = << >>
    /\ last = NoCall
    /\ savefile = NoFile
    /\ extra = {}
    /\ board_obj = 0

\* board = initialise_board(size)
CallInitialiseBoard ==
    /\ board = << >>
    /\ \E size \in BoardSizes :
         /\ board' = initialise_board(size)
         /\ last' = [op |-> "initialise_board", colour |-> "",
                     coord |-> <<size, size>>, raised |-> FALSE, ret |-> 0,
                     before |-> << >>]
    /\ UNCHANGED <<current, move_history, game_finished,
                          moves_remaining, inflight>>
    /\ UNCHANGED <<savefile, extra, board_obj>>

\* A move of either colour, applied if legal_move says it is legal, as the
\* game loop does.
PlayMove ==
    /\ last.op \in {"initialise_board", "apply_move"}
    /\ board # << >>
    /\ count_pieces(board)[1] + count_pieces(board)[2] < 4 + MaxPlies
    /\ \E colour \in {"Black", "White"},
          coord \in (1..Len(board)) \X (1..Len(board)) :
       \E legal \in {LegalMoveCall(colour, coord, board)} :
         /\ legal.ret
         /\ \E a \in {ApplyMoveCall(colour, coord, legal.board)} :
              /\ board' = a.board
              /\ last' = [op |-> "apply_move", colour |-> colour,
                          coord |-> coord, raised |-> a.raised, ret |-> a.ret,
                          before |-> board]
    /\ UNCHANGED <<current, move_history, game_finished,
                          moves_remaining, inflight>>
    /\ UNCHANGED <<savefile, extra, board_obj>>

BoardNext ==
    \/ CallInitialiseBoard
    \/ PlayMove

BoardSpec == BoardInit /\ [][BoardNext]_vars

\* ------------------------------------------- colour arguments of any spelling
\* Colour arguments: the canonical colours, and texts that differ from them by
\* blanks around them, by the case of their letters, by both, or altogether.
ColourTexts ==
    {"Black", "White", " Black ", " White ", "black", "WHITE", " black ",
     "Red", ""}

\* _discs_to_flip and legal_move for a colour argument of any spelling, at a
\* cell of a board made by initialise_board and played on.
CallAsColour ==
    /\ last.op \in {"initialise_board", "apply_move"}
    /\ board # << >>
    /\ \E colour \in ColourTexts,
          coord \in (1..Len(board)) \X (1..Len(board)) :
       \E r \in {DiscsToFlipCall(board, colour, coord[1] - 1, coord[2] - 1)} :
         last' = [op |-> "_discs_to_flip", colour |-> colour,
                  coord |-> <<coord[1] - 1, coord[2] - 1>>,
                  raised |-> r.raised, ret |-> r.flips, before |-> board,
                  legal |-> legal_move(colour, coord, board)]
    /\ UNCHANGED <<board, current, move_history, game_finished,
                   moves_remaining, inflight>>
    /\ UNCHANGED <<savefile, extra, board_obj>>

ColourNext ==
    \/ CallInitialiseBoard
    \/ PlayMove
    \/ CallAsColour

ColourSpec == BoardInit /\ [][ColourNext]_vars

\* ------------------------------------------------------- the web adapter
\* The texts of the query parameters x and y of /move: the digits 0..9, the
\* empty text (a missing parameter) and a text that is no number.
QueryArgs ==
    {<<"0">>, <<"1">>, <<"2">>, <<"3">>, <<"4">>, <<"5">>, <<"6">>, <<"7">>,
     <<"8">>, <<"9">>, << >>, <<"o", "o", "g", "a">>}

\* The games followed to their end: the shortest game there is (Black wins
\* with its fifth move), a game in which White's fourth move leaves Black
\* without a move, so that White moves again, a game of 60 moves that White
\* wins by 52 discs to 12, and a game of 60 moves drawn at 32 discs each.
Book ==
    { << <<"E", "6">>, <<"F", "4">>, <<"E", "3">>, <<"F", "6">>, <<"G", "5">>,
         <<"D", "6">>, <<"E", "7">>, <<"F", "5">>, <<"C", "5">> >>,
      << <<"D", "3">>, <<"C", "3">>, <<"B", "3">>, <<"B", "2">>, <<"F", "5">>,
         <<"A", "3">>, <<"A", "1">>, <<"C", "1">>, <<"E", "3">> >>,
      << <<"E", "6">>, <<"D", "6">>, <<"C", "3">>, <<"F", "4">>, <<"D", "7">>,
         <<"C", "5">>, <<"G", "4">>, <<"G", "3">>, <<"C", "4">>, <<"G", "5">>,
         <<"B", "5">>, <<"C", "7">>, <<"F", "5">>, <<"A", "5">>, <<"A", "6">>,
         <<"D", "8">>, <<"A", "4">>, <<"F", "7">>, <<"F", "6">>, <<"D", "3">>,
         <<"H", "4">>, <<"C", "2">>, <<"E", "7">>, <<"E", "3">>, <<"G", "6">>,
         <<"F", "8">>, <<"B", "4">>, <<"B", "3">>, <<"E", "2">>, <<"H", "5">>,
         <<"B", "6">>, <<"F", "3">>, <<"H", "6">>, <<"G", "7">>, <<"C", "6">>,
         <<"A", "7">>, <<"D", "2">>, <<"D", "1">>, <<"C", "1">>, <<"B", "1">>,
         <<"C", "8">>, <<"B", "2">>, <<"H", "7">>, <<"H", "8">>, <<"H", "2">>,
         <<"A", "3">>, <<"H", "3">>, <<"H", "1">>, <<"F", "2">>, <<"G", "2">>,
         <<"F", "1">>, <<"G", "1">>, <<"E", "8">>, <<"G", "8">>, <<"A", "2">>,
         <<"A", "1">>, <<"B", "7">>, <<"B", "8">>, <<"A", "8">>, <<"E", "1">> >>,
      << <<"D", "3">>, <<"C", "5">>, <<"F", "6">>, <<"E", "3">>, <<"F", "3">>,
         <<"G", "7">>, <<"C", "6">>, <<"F", "2">>, <<"E", "6">>, <<"C", "3">>,
         <<"B", "5">>, <<"F", "5">>, <<"G", "5">>, <<"G", "6">>, <<"G", "4">>,
         <<"G", "3">>, <<"E", "2">>, <<"F", "4">>, <<"B", "3">>, <<"A", "3">>,
         <<"H", "2">>, <<"H", "3">>, <<"H", "8">>, <<"E", "7">>, <<"D", "6">>,
         <<"F", "1">>, <<"B", "2">>, <<"B", "7">>, <<"D", "7">>, <<"D", "8">>,
         <<"B", "4">>, <<"H", "1">>, <<"E", "1">>, <<"C", "1">>, <<"C", "2">>,
         <<"A", "5">>, <<"A", "1">>, <<"B", "1">>, <<"A", "4">>, <<"D", "2">>,
         <<"H", "5">>, <<"B", "6">>, <<"F", "7">>, <<"H", "6">>, <<"H", "7">>,
         <<"D", "1">>, <<"A", "2">>, <<"G", "8">>, <<"F", "8">>, <<"E", "8">>,
         <<"A", "7">>, <<"C", "4">>, <<"C", "8">>, <<"A", "6">>, <<"C", "7">>,
         <<"A", "8">>, <<"H", "4">>, <<"B", "8">>, <<"G", "1">>, <<"G", "2">> >> }

\* The moves that are followed: every move of the first FreePly moves of a
\* game, then the moves of the games of Book.
Followed(history, notation) ==
    \/ Len(history) < FreePly
    \/ \E game \in Book :
         /\ Len(history) < Len(game)
         /\ SubSeq(game, 1, Len(history)) = history
         /\ game[Len(history) + 1] = notation

\* The identities a board object can have.
BoardIds == 1..MaxBoards

\* new_game() without game_state.clear(): the four keys are assigned and any
\* other key stays.
new_game_without_clear ==
    /\ board' = initialise_board(BOARD_SIZE_DEFAULT)
    /\ \E id \in BoardIds \ {board_obj} : board_obj' = id
    /\ current' = "Black"
    /\ move_history' = << >>
    /\ game_finished' = FALSE
    /\ extra' = extra

\* new_game(): a board is made by initialise_board(), a new list object, and
\* game_state is cleared and given the four keys.
new_game ==
    /\ board' = initialise_board(BOARD_SIZE_DEFAULT)
    /\ \E id \in BoardIds \ {board_obj} : board_obj' = id
    /\ current' = "Black"
    /\ move_history' = << >>
    /\ game_finished' = FALSE
    /\ extra' = {}

\* game_state after new_game()
WebInit ==
    /\ board = initialise_board(BOARD_SIZE_DEFAULT)
    /\ current = "Black"
    /\ move_history = << >>
    /\ game_finished = FALSE
    /\ moves_remaining = 0
    /\ inflight = << >>
    /\ last = [op |-> "new_game", kind |-> "", status |-> ""]
    /\ savefile = NoFile
    /\ extra = {}
    /\ board_obj = 1

\* MoveRefused that also hands the turn to the other colour when the request
\* is turned down as invalid or illegal.
MoveRefusedPassesTurn(kind, status, b, numeric, legal) ==
    /\ board' = b
    /\ current' = IF kind = "over" THEN current ELSE other_colour(current)
    /\ last' = [op |-> "move", kind |-> kind, status |-> status,
                numeric |-> numeric, legal |-> legal]
    /\ UNCHANGED <<move_history, game_finished, moves_remaining, inflight>>
    /\ UNCHANGED <<savefile, extra, board_obj>>

\* MoveRefused that clears the finished flag when the game is already over.
MoveRefusedReopens(kind, status, b, numeric, legal) ==
    /\ board' = b
    /\ game_finished' = IF kind = "over" THEN FALSE ELSE game_finished
    /\ last' = [op |-> "move", kind |-> kind, status |-> status,
                numeric |-> numeric, legal |-> legal]
    /\ UNCHANGED <<current, move_history, moves_remaining, inflight>>
    /\ UNCHANGED <<savefile, extra, board_obj>>

\* The three early returns of /move (lines 84-93, 99-107 and 110-119): a
\* response, and game_state left as it is; b is the board as the calls made
\* so far have left it. Kept with the response: whether x and y were numbers,
\* and whether the cell was a legal move for the current player.
MoveRefused(kind, status, b, numeric, legal) ==
    /\ board' = b
    /\ last' = [op |-> "move", kind |-> kind, status |-> status,
                numeric |-> numeric, legal |-> legal]
    /\ UNCHANGED <<current, move_history, game_finished, moves_remaining,
                   inflight>>
    /\ UNCHANGED <<savefile, extra, board_obj>>

\* /move?x=xs&y=ys
Move(xs, ys) ==
    LET px == ParseInt(xs)
        py == ParseInt(ys)
    IN
    IF ~px.ok \/ ~py.ok
      THEN MoveRefused("invalid", "fail", board, FALSE, FALSE)
    ELSE IF game_finished
      THEN MoveRefused("over", "success", board, TRUE,
                       legal_move(current, <<px.val, py.val>>, board))
    ELSE \E legal \in {LegalMoveCall(current, <<px.val, py.val>>, board)} :
      IF ~legal.ret
        THEN MoveRefused("illegal", "fail", legal.board, TRUE, FALSE)
      ELSE
        /\ Followed(move_history, coord_to_notation(px.val, py.val))
        /\ \E a \in {ApplyMoveCall(current, <<px.val, py.val>>, legal.board)} :
             /\ board' = a.board
             /\ move_history' =
                  Append(move_history, coord_to_notation(px.val, py.val))
             /\ current' = NextPlayer(current, a.board)
             /\ game_finished' =
                  IF is_game_finished(a.board) THEN TRUE ELSE game_finished
             /\ last' = [op |-> "move", kind |-> "applied", status |-> "success",
                         numeric |-> TRUE, legal |-> TRUE,
                         colour |-> current, coord |-> <<px.val, py.val>>,
                         ret |-> a.ret, before |-> board,
                         pass |-> PassInfo(current, a.board),
                         finished |-> is_game_finished(a.board),
                         score |-> IF is_game_finished(a.board)
                                     THEN count_pieces(a.board) ELSE <<0, 0>>,
                         winner |-> IF is_game_finished(a.board)
                                      THEN winner(count_pieces(a.board)[1],
                                                  count_pieces(a.board)[2])
                                    ELSE ""]
             /\ UNCHANGED <<moves_remaining, inflight, savefile, extra,
                            board_obj>>

\* /move
MoveRequest == \E xs \in QueryArgs, ys \in QueryArgs : Move(xs, ys)

\* Restart that also removes savegame.json.
RestartRemovesSave ==
    /\ new_game
    /\ last' = [op |-> "restart", kind |-> "", status |-> "success"]
    /\ savefile' = NoFile
    /\ UNCHANGED <<moves_remaining, inflight>>

\* /restart
Restart ==
    /\ new_game
    /\ last' = [op |-> "restart", kind |-> "", status |-> "success"]
    /\ UNCHANGED <<moves_remaining, inflight, savefile>>

\* Load that takes every game loaded to be in play: game_finished is set to
\* False after the document is read.
LoadAsInPlay ==
    /\ IF savefile.kind = "missing"
         THEN /\ new_game
              /\ last' = [op |-> "load", kind |-> "missing", status |-> "fail"]
       ELSE IF savefile.kind = "text"
         THEN /\ last' = [op |-> "load", kind |-> "raised", status |-> "500"]
              /\ UNCHANGED <<board, current, move_history, game_finished,
                             extra, board_obj>>
       ELSE /\ board' = savefile.doc.board
            /\ \E id \in BoardIds \ {board_obj} : board_obj' = id
            /\ current' = savefile.doc.current
            /\ move_history' = savefile.doc.move_history
            /\ extra' = savefile.doc.extra
            /\ game_finished' = FALSE
            /\ last' = [op |-> "load", kind |-> "loaded", status |-> "success"]
    /\ UNCHANGED <<moves_remaining, inflight, savefile>>

\* Load without lines 215-217: game_finished stays as the document has it.
LoadKeepsFlag ==
    /\ IF savefile.kind = "missing"
         THEN /\ new_game
              /\ last' = [op |-> "load", kind |-> "missing", status |-> "fail"]
       ELSE IF savefile.kind = "text"
         THEN /\ last' = [op |-> "load", kind |-> "raised", status |-> "500"]
              /\ UNCHANGED <<board, current, move_history, game_finished,
                             extra, board_obj>>
       ELSE /\ board' = savefile.doc.board
            /\ \E id \in BoardIds \ {board_obj} : board_obj' = id
            /\ current' = savefile.doc.current
            /\ move_history' = savefile.doc.move_history
            /\ extra' = savefile.doc.extra
            /\ game_finished' = (savefile.doc.game_finished = "true")
            /\ last' = [op |-> "load", kind |-> "loaded", status |-> "success"]
    /\ UNCHANGED <<moves_remaining, inflight, savefile>>

\* /load: the file is missing (new_game(), status fail), or json.load raises
\* JSONDecodeError on it, which load does not catch (the request ends in an
\* error response and game_state is as it was), or it holds a document:
\* game_state is cleared and updated with the document's members, and
\* game_finished is then set from the loaded board.
Load ==
    /\ IF savefile.kind = "missing"
         THEN /\ new_game
              /\ last' = [op |-> "load", kind |-> "missing", status |-> "fail"]
       ELSE IF savefile.kind = "text"
         THEN /\ last' = [op |-> "load", kind |-> "raised", status |-> "500"]
              /\ UNCHANGED <<board, current, move_history, game_finished,
                             extra, board_obj>>
       ELSE /\ board' = savefile.doc.board
            /\ \E id \in BoardIds \ {board_obj} : board_obj' = id
            /\ current' = savefile.doc.current
            /\ move_history' = savefile.doc.move_history
            /\ extra' = savefile.doc.extra
            /\ game_finished' = is_game_finished(savefile.doc.board)
            /\ last' = [op |-> "load", kind |-> "loaded", status |-> "success"]
    /\ UNCHANGED <<moves_remaining, inflight, savefile>>

\* Save that writes the other colour as the current player.
SaveSwapsTurn ==
    /\ savefile' = [kind |-> "json",
                    doc |-> [board |-> board,
                             current |-> other_colour(current),
                             move_history |-> move_history,
                             game_finished |-> IF game_finished THEN "true"
                                               ELSE "false",
                             extra |-> extra]]
    /\ last' = [op |-> "save", kind |-> "", status |-> "success"]
    /\ UNCHANGED <<board, current, move_history, game_finished,
                   moves_remaining, inflight, extra, board_obj>>

\* /save: game_state is written to savegame.json as a JSON document, the
\* flag as the literal true or false, and is left as it is.
Save ==
    /\ savefile' = [kind |-> "json",
                    doc |-> [board |-> board, current |-> current,
                             move_history |-> move_history,
                             game_finished |-> IF game_finished THEN "true"
                                               ELSE "false",
                             extra |-> extra]]
    /\ last' = [op |-> "save", kind |-> "", status |-> "success"]
    /\ UNCHANGED <<board, current, move_history, game_finished,
                   moves_remaining, inflight, extra, board_obj>>

WebNext ==
    \/ MoveRequest
    \/ Restart

WebSpec == WebInit /\ [][WebNext]_vars

\* --------------------------------------------------- the command-line game
\* What is typed at the prompt: every cell as a letter and a digit, and a few
\* other texts (lower case with a blank, quit words, a column and rows that do
\* not exist, too short a text).
CliInputs ==
    {<<UpperCase[x], Str(y)[1]>> : x \in 1..8, y \in 1..8}
      \cup {<<"e", " ", "6">>, <<" ", "d", ",", "3">>, <<"q">>,
            <<"Q", "u", "i", "t">>, <<"Z", "9">>, <<"A", "0">>,
            <<"B", "1", "2">>, <<"A">>, << >>}

\* The loop has stopped: the final counts and the result printed (lines
\* 105-117).
CliOver(b, said) ==
    [op |-> "cli", at |-> "done", said |-> said,
     score |-> count_pieces(b),
     result |-> CliResult(count_pieces(b)[1], count_pieces(b)[2])]

\* CliInit with the counter set to the number of cells of the board, the four
\* discs of the start counted as moves to come.
CliInitAllCells ==
    /\ board = initialise_board(BOARD_SIZE_DEFAULT)
    /\ current = "Black"
    /\ moves_remaining = 64
    /\ inflight = << >>
    /\ move_history = << >>
    /\ game_finished = FALSE
    /\ last = [op |-> "cli", at |-> "loop", said |-> "", score |-> <<0, 0>>,
               result |-> ""]
    /\ savefile = NoFile
    /\ extra = {}
    /\ board_obj = 0

\* simple_game_loop() up to its loop (lines 67-72); move_history keeps the
\* moves applied, which the loop itself does not keep.
CliInit ==
    /\ board = initialise_board(BOARD_SIZE_DEFAULT)
    /\ current = "Black"
    /\ moves_remaining = 60
    /\ inflight = << >>
    /\ move_history = << >>
    /\ game_finished = FALSE
    /\ last = [op |-> "cli", at |-> "loop", said |-> "", score |-> <<0, 0>>,
               result |-> ""]
    /\ savefile = NoFile
    /\ extra = {}
    /\ board_obj = 0

\* From the loop test to the prompt (lines 74-87), or out of the loop.
CliLoopHead ==
    /\ last.op = "cli"
    /\ last.at = "loop"
    /\ IF ~(moves_remaining > 0)
         THEN /\ last' = CliOver(board, "")
              /\ UNCHANGED <<board, current>>
       ELSE \E mine \in {HasAnyLegalMovesCall(current, board)} :
         IF mine.ret
           THEN /\ board' = mine.board
                /\ last' = [op |-> "cli", at |-> "prompt", said |-> "",
                            score |-> <<0, 0>>, result |-> ""]
                /\ UNCHANGED current
         ELSE \E theirs \in {HasAnyLegalMovesCall(other_colour(current),
                                                   mine.board)} :
           /\ board' = theirs.board
           /\ IF ~theirs.ret
                THEN /\ last' = CliOver(theirs.board, "no legal moves")
                     /\ UNCHANGED current
              ELSE /\ current' = other_colour(current)
                   /\ last' = [op |-> "cli", at |-> "prompt",
                               said |-> "passes", score |-> <<0, 0>>,
                               result |-> ""]
    /\ UNCHANGED <<move_history, game_finished, moves_remaining, inflight>>
    /\ UNCHANGED <<savefile, extra, board_obj>>

\* One text typed at the prompt (lines 48-57 and 89-102).
CliInput ==
    /\ last.op = "cli"
    /\ last.at = "prompt"
    /\ \E raw \in CliInputs :
         IF Lower(StripText(raw)) \in {<<"q">>, <<"q", "u", "i", "t">>,
                                       <<"e", "x", "i", "t">>}
           THEN /\ last' = [op |-> "cli", at |-> "exit", said |-> "Goodbye!",
                            score |-> <<0, 0>>, result |-> ""]
                /\ UNCHANGED <<board, current, move_history, moves_remaining, inflight>>
         ELSE \E coord \in {parse_letter_number_input(StripText(raw))} :
           IF ~coord.ok
             THEN /\ last' = [op |-> "cli", at |-> "prompt",
                              said |-> "Invalid input", score |-> <<0, 0>>,
                              result |-> ""]
                  /\ UNCHANGED <<board, current, move_history, moves_remaining, inflight>>
           ELSE \E legal \in {LegalMoveCall(current, <<coord.x, coord.y>>, board)} :
             IF ~legal.ret
               THEN /\ board' = legal.board
                    /\ last' = [op |-> "cli", at |-> "prompt",
                                said |-> "Illegal move", score |-> <<0, 0>>,
                                result |-> ""]
                    /\ UNCHANGED <<current, move_history, moves_remaining, inflight>>
             ELSE
               /\ Followed(move_history, coord_to_notation(coord.x, coord.y))
               /\ \E a \in {ApplyMoveCall(current, <<coord.x, coord.y>>,
                                           legal.board)} :
                    /\ board' = a.board
                    /\ move_history' =
                         Append(move_history,
                                coord_to_notation(coord.x, coord.y))
                    /\ moves_remaining' = moves_remaining - 1
                    /\ UNCHANGED inflight
                    /\ IF moves_remaining - 1 = 0
                         THEN /\ last' = CliOver(a.board, "Move applied")
                              /\ UNCHANGED current
                       ELSE /\ current' = other_colour(current)
                            /\ last' = [op |-> "cli", at |-> "loop",
                                        said |-> "Move applied",
                                        score |-> <<0, 0>>, result |-> ""]
    /\ UNCHANGED game_finished
    /\ UNCHANGED <<savefile, extra, board_obj>>

CliNext ==
    \/ CliLoopHead
    \/ CliInput

CliSpec == CliInit /\ [][CliNext]_vars

\* ------------------------------------ the web adapter in a threaded server
\* app.run() serves each request in a thread of its own; the handlers share
\* game_state and take no lock. A /move request is served in the steps below,
\* and the steps of two requests interleave in any order.
Threads == {1, 2}

\* The texts of the query parameters of the requests made: the coordinates of
\* the middle of the board, and a missing parameter.
ConcArgs == {<<"3">>, <<"4">>, <<"5">>, <<"6">>, << >>}

Idle == [pc |-> "idle", x |-> 0, y |-> 0, colour |-> ""]

\* The record of a step: the thread that took it, the colour the thread plays
\* (its local current), the colour game_state["current"] held before the step
\* (turn), and whether the cell was a legal move for that colour on the board
\* as it stood before the step (legal).
Step(kind, status, t, colour, legal) ==
    [op |-> "move", kind |-> kind, status |-> status, thread |-> t,
     colour |-> colour, turn |-> current, legal |-> legal]

ConcInit ==
    /\ board = initialise_board(BOARD_SIZE_DEFAULT)
    /\ current = "Black"
    /\ move_history = << >>
    /\ game_finished = FALSE
    /\ moves_remaining = 0
    /\ inflight = [t \in Threads |-> Idle]
    /\ last = [op |-> "new_game", kind |-> "", status |-> "", thread |-> 0,
               colour |-> "", turn |-> "", legal |-> FALSE]
    /\ savefile = NoFile
    /\ extra = {}
    /\ board_obj = 1

\* Lines 77-107: the parameters are parsed, board and current are read from
\* game_state and the finished flag is tested.
ConcRead ==
    \E t \in Threads, xs \in ConcArgs, ys \in ConcArgs :
      /\ inflight[t].pc = "idle"
      /\ Len(move_history)
           + Cardinality({u \in Threads : inflight[u].pc # "idle"}) < MaxConcMoves
      /\ LET px == ParseInt(xs)
             py == ParseInt(ys)
         IN IF ~px.ok \/ ~py.ok
              THEN /\ last' = Step("invalid", "fail", t, "", FALSE)
                   /\ UNCHANGED inflight
            ELSE IF game_finished
              THEN /\ last' = Step("over", "success", t, "", FALSE)
                   /\ UNCHANGED inflight
            ELSE /\ inflight' = [inflight EXCEPT ![t] =
                                   [pc |-> "check", x |-> px.val, y |-> py.val,
                                    colour |-> current]]
                 /\ last' = Step("read", "", t, current, FALSE)
      /\ UNCHANGED <<board, current, move_history, game_finished, moves_remaining>>
      /\ UNCHANGED <<savefile, extra, board_obj>>

\* Line 110: legal_move for the colour read, on the shared board.
ConcCheck ==
    \E t \in Threads :
      /\ inflight[t].pc = "check"
      /\ \E legal \in {LegalMoveCall(inflight[t].colour,
                                      <<inflight[t].x, inflight[t].y>>, board)} :
           /\ board' = legal.board
           /\ IF ~legal.ret
                THEN /\ inflight' = [inflight EXCEPT ![t] = Idle]
                     /\ last' = Step("illegal", "fail", t, inflight[t].colour,
                                     FALSE)
              ELSE /\ inflight' = [inflight EXCEPT ![t].pc = "apply"]
                   /\ last' = Step("checked", "", t, inflight[t].colour, TRUE)
      /\ UNCHANGED <<current, move_history, game_finished, moves_remaining>>
      /\ UNCHANGED <<savefile, extra, board_obj>>

\* Line 122: apply_move for the colour read, on the shared board.
ConcApply ==
    \E t \in Threads :
      /\ inflight[t].pc = "apply"
      /\ \E a \in {ApplyMoveCall(inflight[t].colour,
                                  <<inflight[t].x, inflight[t].y>>, board)} :
           /\ board' = a.board
           /\ inflight' = [inflight EXCEPT ![t].pc = "append"]
           /\ last' = Step("placed", "", t, inflight[t].colour,
                           legal_move(current,
                                      <<inflight[t].x, inflight[t].y>>, board))
      /\ UNCHANGED <<current, move_history, game_finished, moves_remaining>>
      /\ UNCHANGED <<savefile, extra, board_obj>>

\* Lines 125-126: the notation is appended to the shared move history.
ConcAppend ==
    \E t \in Threads :
      /\ inflight[t].pc = "append"
      /\ move_history' =
           Append(move_history, coord_to_notation(inflight[t].x, inflight[t].y))
      /\ inflight' = [inflight EXCEPT ![t].pc = "turn"]
      /\ last' = Step("appended", "", t, inflight[t].colour, FALSE)
      /\ UNCHANGED <<board, current, game_finished, moves_remaining>>
      /\ UNCHANGED <<savefile, extra, board_obj>>

\* Lines 133-147: the next player is worked out from the colour read and
\* stored.
ConcTurn ==
    \E t \in Threads :
      /\ inflight[t].pc = "turn"
      /\ current' = NextPlayer(inflight[t].colour, board)
      /\ inflight' = [inflight EXCEPT ![t].pc = "finish"]
      /\ last' = Step("turn", "", t, inflight[t].colour, FALSE)
      /\ UNCHANGED <<board, move_history, game_finished, moves_remaining>>
      /\ UNCHANGED <<savefile, extra, board_obj>>

\* Lines 150-190: the finished flag is set if the game is over, and the
\* response is sent.
ConcFinish ==
    \E t \in Threads :
      /\ inflight[t].pc = "finish"
      /\ game_finished' =
           IF is_game_finished(board) THEN TRUE ELSE game_finished
      /\ inflight' = [inflight EXCEPT ![t] = Idle]
      /\ last' = Step("applied", "success", t, inflight[t].colour, FALSE)
      /\ UNCHANGED <<board, current, move_history, moves_remaining>>
      /\ UNCHANGED <<savefile, extra, board_obj>>

ConcNext ==
    \/ ConcRead
    \/ ConcCheck
    \/ ConcApply
    \/ ConcAppend
    \/ ConcTurn
    \/ ConcFinish

ConcSpec == ConcInit /\ [][ConcNext]_vars

\* The nine moves of the shortest game, and the 1-based cell a notation names.
FastestGame ==
    << <<"E", "6">>, <<"F", "4">>, <<"E", "3">>, <<"F", "6">>, <<"G", "5">>,
       <<"D", "6">>, <<"E", "7">>, <<"F", "5">>, <<"C", "5">> >>

CellNamed(notation) ==
    CHOOSE p \in (1..8) \X (1..8) : coord_to_notation(p[1], p[2]) = notation

\* ------------------------------------------- the web adapter and its save file
\* The position the shortest game ends in, and the position after E6.
FastestGameBoard ==
    << <<EMPTY, EMPTY, EMPTY, EMPTY, EMPTY, EMPTY, EMPTY, EMPTY>>,
       <<EMPTY, EMPTY, EMPTY, EMPTY, EMPTY, EMPTY, EMPTY, EMPTY>>,
       <<EMPTY, EMPTY, EMPTY, EMPTY, BLACK, EMPTY, EMPTY, EMPTY>>,
       <<EMPTY, EMPTY, EMPTY, BLACK, BLACK, BLACK, EMPTY, EMPTY>>,
       <<EMPTY, EMPTY, BLACK, BLACK, BLACK, BLACK, BLACK, EMPTY>>,
       <<EMPTY, EMPTY, EMPTY, BLACK, BLACK, BLACK, EMPTY, EMPTY>>,
       <<EMPTY, EMPTY, EMPTY, EMPTY, BLACK, EMPTY, EMPTY, EMPTY>>,
       <<EMPTY, EMPTY, EMPTY, EMPTY, EMPTY, EMPTY, EMPTY, EMPTY>> >>

BoardAfterE6 ==
    << <<EMPTY, EMPTY, EMPTY, EMPTY, EMPTY, EMPTY, EMPTY, EMPTY>>,
       <<EMPTY, EMPTY, EMPTY, EMPTY, EMPTY, EMPTY, EMPTY, EMPTY>>,
       <<EMPTY, EMPTY, EMPTY, EMPTY, EMPTY, EMPTY, EMPTY, EMPTY>>,
       <<EMPTY, EMPTY, EMPTY, WHITE, BLACK, EMPTY, EMPTY, EMPTY>>,
       <<EMPTY, EMPTY, EMPTY, BLACK, BLACK, EMPTY, EMPTY, EMPTY>>,
       <<EMPTY, EMPTY, EMPTY, EMPTY, BLACK, EMPTY, EMPTY, EMPTY>>,
       <<EMPTY, EMPTY, EMPTY, EMPTY, EMPTY, EMPTY, EMPTY, EMPTY>>,
       <<EMPTY, EMPTY, EMPTY, EMPTY, EMPTY, EMPTY, EMPTY, EMPTY>> >>

\* What savegame.json can hold when /load reads it: nothing (no file), text
\* that is no JSON, or a JSON document with the members board, current,
\* move_history and game_finished (the literal true, false or null) and
\* further members (extra). The documents: the final position of the shortest
\* game saved as not finished and with a further member; the initial position
\* saved as finished; the position after E6 with Black to move again and no
\* flag; a board of one junk cell with further members.
SaveFiles ==
    { NoFile,
      [kind |-> "text"],
      [kind |-> "json",
       doc |-> [board |-> FastestGameBoard,
                current |-> "White", move_history |-> FastestGame,
                game_finished |-> "false",
                extra |-> {<<"random_extra_key", "123">>}]],
      [kind |-> "json",
       doc |-> [board |-> initialise_board(BOARD_SIZE_DEFAULT),
                current |-> "Black", move_history |-> << >>,
                game_finished |-> "true", extra |-> {}]],
      [kind |-> "json",
       doc |-> [board |-> BoardAfterE6,
                current |-> "Black", move_history |-> << <<"E", "6">> >>,
                game_finished |-> "null", extra |-> {}]],
      [kind |-> "json",
       doc |-> [board |-> << <<"junk">> >>,
                current |-> "White", move_history |-> << <<"A", "1">> >>,
                game_finished |-> "false",
                extra |-> {<<"finished", "true">>,
                           <<"random_extra_key", "123">>}]] }

\* The sessions /move leaves after n applied moves of a game started by
\* new_game(): the board, the player to move and the history.
RECURSIVE Sessions(_)
Sessions(n) ==
    IF n = 0
      THEN {[board |-> initialise_board(BOARD_SIZE_DEFAULT),
             current |-> "Black", move_history |-> << >>]}
    ELSE UNION {
           {[board |-> ApplyMoveCall(s.current, c, s.board).board,
             current |-> NextPlayer(s.current,
                           ApplyMoveCall(s.current, c, s.board).board),
             move_history |-> Append(s.move_history,
                                     coord_to_notation(c[1], c[2]))] :
              c \in {d \in (1..BOARD_SIZE_DEFAULT) \X (1..BOARD_SIZE_DEFAULT) :
                       legal_move(s.current, d, s.board)}} :
           s \in Sessions(n - 1)}

\* game_state after new_game() and up to MaxLoadPly applied moves, with any
\* of the save files on disk.
LoadInit ==
    /\ \E n \in 0..MaxLoadPly : \E s \in Sessions(n) :
         /\ board = s.board
         /\ current = s.current
         /\ move_history = s.move_history
         /\ game_finished = is_game_finished(s.board)
    /\ moves_remaining = 0
    /\ inflight = << >>
    /\ savefile \in SaveFiles
    /\ extra = {}
    /\ board_obj = 1
    /\ last = [op |-> "new_game", kind |-> "", status |-> ""]

LoadNext ==
    \/ Restart
    \/ Load

LoadSpec == LoadInit /\ [][LoadNext]_vars

\* ------------------------------------------- a session with its own saves
\* The coordinates asked for in a session that saves and loads: the columns
\* and rows 1 to 7, and a missing parameter.
SaveArgs == {<<"1">>, <<"2">>, <<"3">>, <<"4">>, <<"5">>, <<"6">>, <<"7">>,
             << >>}

\* /move, while fewer than MaxSavePly moves have been applied; the moves
\* applied are those of the games of Book of no more than MaxSavePly moves,
\* from their first move on.
SaveMove ==
    /\ Len(move_history) < MaxSavePly
    /\ \E xs \in SaveArgs, ys \in SaveArgs : Move(xs, ys)
    /\ \E game \in Book :
         /\ Len(game) <= MaxSavePly
         /\ Len(move_history') <= Len(game)
         /\ SubSeq(game, 1, Len(move_history')) = move_history'

SaveNext ==
    \/ SaveMove
    \/ Save
    \/ Load
    \/ Restart

SaveSpec == WebInit /\ [][SaveNext]_vars

\* A request to the web adapter, made in a state of a web session that saves
\* and loads.
SaveStep ==
    /\ last.op \in {"new_game", "move", "restart", "save", "load"}
    /\ SaveNext

\* ------------------------------------------------- the text at the prompt
\* The characters typed: letters of a column in either case and one past H,
\* digits, the blank, the tab, the comma, the signs and the underscore.
ParseAlphabet == {"d", "A", "I", "0", "6", "9", " ", "\t", ",", "+", "-", "_"}

\* The texts of the documentation and of the tests.
ParseExamples ==
    {<<" ", " ", "d", " ", " ", "6", " ">>, <<"Z", "9">>, <<"A", "0">>,
     <<"B", "1", "2">>, <<"A">>, <<"H", "8">>, <<"a", " ", "3">>,
     <<"d", ",", "7">>, <<"q">>, <<"Q", "u", "i", "t">>,
     <<" ", "e", "x", "i", "t">>}

ParseInputs ==
    ParseExamples \cup UNION {[1..n -> ParseAlphabet] : n \in 0..MaxParseLen}

\* The command-line game at its first prompt, a text typed.
ParseInit ==
    /\ board = initialise_board(BOARD_SIZE_DEFAULT)
    /\ current = "Black"
    /\ moves_remaining = 60
    /\ inflight = << >>
    /\ move_history = << >>
    /\ game_finished = FALSE
    /\ \E raw \in ParseInputs : last = [op |-> "input", raw |-> raw]
    /\ savefile = NoFile
    /\ extra = {}
    /\ board_obj = 0

\* parse_letter_number_input(raw)
CallParseLetterNumberInput ==
    /\ last.op = "input"
    /\ \E r \in {parse_letter_number_input(last.raw)} :
         last' = [op |-> "parse_letter_number_input", raw |-> last.raw,
                  ok |-> r.ok, x |-> r.x, y |-> r.y]
    /\ UNCHANGED <<board, current, move_history, game_finished,
                   moves_remaining, inflight, savefile, extra, board_obj>>

\* One turn of the loop of cli_coords_input() (lines 47-57) on the text
\* typed: SystemExit, the coordinate returned, or "Invalid input" printed and
\* the prompt shown again.
CallCliCoordsInput ==
    /\ last.op = "input"
    /\ LET text == StripText(last.raw) IN
       IF Lower(text) \in {<<"q">>, <<"q", "u", "i", "t">>,
                           <<"e", "x", "i", "t">>}
         THEN last' = [op |-> "cli_coords_input", raw |-> last.raw,
                       outcome |-> "exit", x |-> 0, y |-> 0]
       ELSE \E r \in {parse_letter_number_input(text)} :
         last' = [op |-> "cli_coords_input", raw |-> last.raw,
                  outcome |-> IF r.ok THEN "returned" ELSE "prompt",
                  x |-> r.x, y |-> r.y]
    /\ UNCHANGED <<board, current, move_history, game_finished,
                   moves_remaining, inflight, savefile, extra, board_obj>>

\* At the prompt shown again, one of the example texts is typed.
CliRetype ==
    /\ last.op = "cli_coords_input"
    /\ last.outcome = "prompt"
    /\ \E raw \in ParseExamples : last' = [op |-> "input", raw |-> raw]
    /\ UNCHANGED <<board, current, move_history, game_finished,
                   moves_remaining, inflight, savefile, extra, board_obj>>

ParseNext ==
    \/ CallParseLetterNumberInput
    \/ CallCliCoordsInput
    \/ CliRetype

ParseSpec == ParseInit /\ [][ParseNext]_vars

\* ------------------------------------------- either program, started afresh
\* A request to the web adapter, made of a state of a web session.
WebStep ==
    /\ last.op \in {"new_game", "move", "restart"}
    /\ WebNext

PlayInit == WebInit \/ CliInit

PlayNext ==
    \/ WebStep
    \/ CliLoopHead
    \/ CliInput

PlaySpec == PlayInit /\ [][PlayNext]_vars

\* Either program, started afresh, the web session with its own saves.
SessionNext ==
    \/ SaveStep
    \/ CliLoopHead
    \/ CliInput

SessionSpec == PlayInit /\ [][SessionNext]_vars

\* ---------------------------------------------- the two programs, side by side
\* A web session and, in inflight, the state of a command-line game that is
\* given the same moves: each move /move applies is typed at the prompt of
\* the command-line game as its notation.
TwinInit ==
    /\ board = initialise_board(BOARD_SIZE_DEFAULT)
    /\ current = "Black"
    /\ move_history = << >>
    /\ game_finished = FALSE
    /\ moves_remaining = 0
    /\ inflight = <<CliHead(initialise_board(BOARD_SIZE_DEFAULT), "Black",
                            60, 0)>>
    /\ last = [op |-> "new_game", kind |-> "", status |-> ""]
    /\ savefile = NoFile
    /\ extra = {}
    /\ board_obj = 1

\* /move, once the command-line game has been given the moves applied so far.
TwinWebMove ==
    /\ inflight[1].plies = Len(move_history)
    /\ MoveRequest

\* The move /move has applied last is typed at the prompt of the
\* command-line game.
TwinCliMove ==
    /\ inflight[1].plies < Len(move_history)
    /\ inflight[1].at = "prompt"
    /\ inflight' = <<CliTyped(inflight[1],
                              move_history[inflight[1].plies + 1])>>
    /\ UNCHANGED <<board, current, move_history, game_finished, last,
                   moves_remaining, savefile, extra, board_obj>>

TwinNext ==
    \/ TwinWebMove
    \/ TwinCliMove

TwinSpec == TwinInit /\ [][TwinNext]_vars

\* ------------------------------------------------------- the rules, restated
\* The elements of a list.
ListSet(l) == {l[k] : k \in 1..Len(l)}

\* (x0, y0), 0-based, is a cell of the board.
OnBoard(b, x0, y0) == 0 <= x0 /\ x0 < Len(b) /\ 0 <= y0 /\ y0 < Len(b)

\* The colour held by the cell (x0, y0) of the board, "None" if it is empty.
Held(b, x0, y0) == Strip(b[y0 + 1][x0 + 1])

Canonical == {"Black", "White"}

Compass == {d \in (-1..1) \X (-1..1) : d # <<0, 0>>}

\* What the direction d gives a disc of colour me placed at (x0, y0): the
\* cells at 1..k steps, k being the length of the run of the other colour that
\* starts next to (x0, y0), if k >= 1 and the cell after the run holds me.
Bracketed(b, me, x0, y0, d) ==
    LET other == IF me = "Black" THEN "White" ELSE "Black"
        Is(i, c) == /\ OnBoard(b, x0 + i * d[1], y0 + i * d[2])
                    /\ Held(b, x0 + i * d[1], y0 + i * d[2]) = c
        k == CHOOSE n \in 0..Len(b) :
               /\ \A i \in 1..n : Is(i, other)
               /\ ~Is(n + 1, other)
    IN IF k >= 1 /\ Is(k + 1, me)
         THEN {<<x0 + i * d[1], y0 + i * d[2]>> : i \in 1..k}
       ELSE {}

BracketedAll(b, me, x0, y0) ==
    UNION {Bracketed(b, me, x0, y0, d) : d \in Compass}

\* The request to place colour at (x0, y0) is illegal: off the board, on an
\* occupied cell, with a colour that is neither Black nor White once stripped,
\* or bracketing nothing.
IllegalRequest(b, colour, x0, y0) ==
    \/ ~OnBoard(b, x0, y0)
    \/ Held(b, x0, y0) # "None"
    \/ Strip(colour) \notin Canonical
    \/ BracketedAll(b, Strip(colour), x0, y0) = {}

\* ------------------------------------------------------------------ claims
\* C1: for every board, colour in {Black, White} and empty cell of the board,
\* the discs _discs_to_flip returns are exactly the union over the 8 compass
\* directions of the run of opposing discs next to the cell, taken when the
\* run is not empty and is followed by a disc of the mover; a run that ends on
\* an empty cell or at the edge gives nothing.
C1_FlipSetIsBracketedRuns ==
    ( /\ last.op = "_discs_to_flip"
      /\ last.colour \in Canonical
      /\ OnBoard(last.before, last.coord[1], last.coord[2])
      /\ Held(last.before, last.coord[1], last.coord[2]) = "None" )
    => /\ ~last.raised
       /\ ListSet(last.ret)
            = BracketedAll(last.before, last.colour, last.coord[1], last.coord[2])

\* _discs_to_flip has returned discs of two directions.
C1_Witness ==
    /\ last.op = "_discs_to_flip"
    /\ last.colour \in Canonical
    /\ \E f \in ListSet(last.ret), g \in ListSet(last.ret) :
         /\ f # g
         /\ \A h \in {f, g} : /\ h[1] - last.coord[1] \in -1..1
                              /\ h[2] - last.coord[2] \in -1..1

\* C2: legal_move(colour, coord, board) is true iff apply_move(colour, coord,
\* board) on the same board returns a flip count of at least 1.
C2_LegalIffApplyFlips ==
    last.op = "legal_move"
    => ( last.ret
         <=> LET a == ApplyMoveCall(last.colour, last.coord, last.before)
             IN ~a.raised /\ a.ret >= 1 )

\* legal_move has answered true.
C2_Witness ==
    /\ last.op = "legal_move"
    /\ last.ret
    /\ ApplyMoveCall(last.colour, last.coord, last.before).ret >= 1

\* C3: apply_move of an illegal move (off the board, occupied cell, nothing
\* bracketed, invalid colour) returns 0 and leaves every cell unchanged.
C3_IllegalApplyIsNoOp ==
    ( /\ last.op = "apply_move"
      /\ ~legal_move(last.colour, last.coord, last.before) )
    => /\ ~last.raised
       /\ last.ret = 0
       /\ board = last.before

\* C4: legal_move and _discs_to_flip never raise, and answer false / the empty
\* list to every illegal request: a coordinate off the board (0, negative,
\* size + 1), an occupied cell, a cell that brackets nothing, a colour that is
\* neither Black nor White once stripped.
C4_IllegalIsFalseNeverRaises ==
    /\ last.op = "_discs_to_flip"
       => /\ ~last.raised
          /\ IllegalRequest(last.before, last.colour, last.coord[1], last.coord[2])
             => last.ret = << >>
    /\ last.op = "legal_move"
       => /\ ~last.raised
          /\ IllegalRequest(last.before, last.colour,
                            last.coord[1] - 1, last.coord[2] - 1)
             => last.ret = FALSE

\* _discs_to_flip has been asked about a cell beyond the last column of a
\* board that holds discs.
C4_Witness ==
    /\ last.op = "_discs_to_flip"
    /\ last.coord[1] = Len(last.before)
    /\ last.coord[2] \in 0..(Len(last.before) - 1)
    /\ count_pieces(last.before)[1] >= 1
    /\ last.ret = << >>

\* C5: apply_move of a legal move by the colour c at a cell sets that cell and
\* every disc of the flip list to c, returns the number of those discs, and
\* leaves every other cell as it was.
C5_ApplySetsTargetAndFlips ==
    ( /\ last.op = "apply_move"
      /\ last.colour \in Canonical
      /\ legal_move(last.colour, last.coord, last.before) )
    => LET x0 == last.coord[1] - 1
           y0 == last.coord[2] - 1
           F  == ListSet(_discs_to_flip(last.before, last.colour, x0, y0))
       IN /\ ~last.raised
          /\ last.ret = Cardinality(F)
          /\ \A y \in 1..Len(board) : \A x \in 1..Len(board) :
               board[y][x] = IF <<x - 1, y - 1>> \in F \union {<<x0, y0>>}
                               THEN last.colour
                             ELSE last.before[y][x]

\* apply_move has applied a legal move that flips a run of two discs.
C5_Witness ==
    /\ last.op = "apply_move"
    /\ last.colour \in Canonical
    /\ legal_move(last.colour, last.coord, last.before)
    /\ last.ret >= 2
    /\ \E f \in BracketedAll(last.before, last.colour,
                             last.coord[1] - 1, last.coord[2] - 1) :
         \/ f[1] - (last.coord[1] - 1) \notin -1..1
         \/ f[2] - (last.coord[2] - 1) \notin -1..1

\* C6: after a legal move the sum of the two counts of count_pieces is 1 more
\* than before, the count apply_move returns is the number of cells other than
\* the placed one whose colour changed, the mover has gained that count + 1
\* and the opponent has lost that count.
C6_Conservation ==
    ( /\ last.op = "apply_move"
      /\ last.colour \in Canonical
      /\ legal_move(last.colour, last.coord, last.before) )
    => LET cb == count_pieces(last.before)
           ca == count_pieces(board)
           me == IF last.colour = "Black" THEN 1 ELSE 2
           changed == {p \in (1..Len(board)) \X (1..Len(board)) :
                         /\ p # last.coord
                         /\ Strip(board[p[2]][p[1]])
                              # Strip(last.before[p[2]][p[1]])}
       IN /\ ca[1] + ca[2] = cb[1] + cb[2] + 1
          /\ last.ret = Cardinality(changed)
          /\ ca[me] = cb[me] + last.ret + 1
          /\ ca[3 - me] = cb[3 - me] - last.ret

\* apply_move has applied a legal move of White.
C6_Witness ==
    /\ last.op = "apply_move"
    /\ last.colour = "White"
    /\ legal_move(last.colour, last.coord, last.before)
    /\ count_pieces(board)[2] = count_pieces(last.before)[2] + last.ret + 1

\* C8: is_game_finished(board) is true iff neither Black nor White has a
\* legal move on the board, for any board.
C8_FinishedIffNoLegalMove ==
    last.op = "is_game_finished"
    => ( last.ret
         <=> \A c \in Canonical :
               \A p \in (1..Len(last.before)) \X (1..Len(last.before)) :
                  ~legal_move(c, p, last.before) )

\* is_game_finished has answered true on a board holding both colours.
C8_Witness ==
    /\ last.op = "is_game_finished"
    /\ last.ret
    /\ count_pieces(last.before)[1] >= 1
    /\ count_pieces(last.before)[2] >= 1

\* C9: has_any_legal_moves(colour, board) is true iff legal_move(colour,
\* (x, y), board) is true for some 1 <= x, y <= size; the scan covers every
\* cell.
C9_HasAnyIffSomeLegal ==
    last.op = "has_any_legal_moves"
    => ( last.ret
         <=> \E p \in (1..Len(last.before)) \X (1..Len(last.before)) :
                legal_move(last.colour, p, last.before) )

\* has_any_legal_moves has answered true where the only legal move is the
\* last cell of the scan.
C9_Witness ==
    /\ last.op = "has_any_legal_moves"
    /\ last.ret
    /\ \A p \in (1..Len(last.before)) \X (1..Len(last.before)) :
         legal_move(last.colour, p, last.before)
           <=> p = <<Len(last.before), Len(last.before)>>

\* C10: a call of legal_move, has_any_legal_moves, is_game_finished or
\* count_pieces, with any arguments, changes no cell of the board.
C10_ReadOnlyCallsKeepBoard ==
    last.op \in {"legal_move", "has_any_legal_moves", "is_game_finished",
                 "count_pieces"}
    => board = last.before

\* has_any_legal_moves has found a legal move and left the board as it was.
C10_Witness ==
    /\ last.op = "has_any_legal_moves"
    /\ last.ret
    /\ board = last.before

\* C11: on a board with no empty cell, whatever non-empty values its cells
\* hold, no colour argument has a legal move at any coordinate, on or off the
\* board, has_any_legal_moves is false for Black and for White, and
\* is_game_finished returns true.
C11_FullBoardIsTerminal ==
    (\A y \in 1..Len(board) : \A x \in 1..Len(board) :
        Strip(board[y][x]) # "None")
    => /\ last.op = "none" =>
            /\ \A c \in Colours :
                 \A p \in (0..(Len(board) + 1)) \X (0..(Len(board) + 1)) :
                   /\ ~legal_move(c, p, board)
                   /\ _discs_to_flip(board, c, p[1] - 1, p[2] - 1) = << >>
            /\ ~has_any_legal_moves("Black", board)
            /\ ~has_any_legal_moves("White", board)
            /\ is_game_finished(board)
       /\ last.op = "is_game_finished" => last.ret = TRUE
       /\ last.op = "has_any_legal_moves" => last.ret = FALSE
       /\ last.op = "legal_move" => last.ret = FALSE
       /\ last.op = "_discs_to_flip" => last.ret = << >>

\* is_game_finished has answered true on a full board of side Corner that
\* holds both colours, with a Black disc between two White ones in a row.
C11_Witness ==
    /\ last.op = "is_game_finished"
    /\ last.ret = TRUE
    /\ Len(board) = Corner
    /\ board[1] = <<WHITE, BLACK, WHITE>>
    /\ \A y \in 1..Corner : \A x \in 1..Corner : board[y][x] \in {BLACK, WHITE}

\* C12: initialise_board(size), for an even size >= 2, returns a board of size
\* rows of size cells each, with White at the 0-based cells (h-1, h-1) and
\* (h, h), Black at (h-1, h) and (h, h-1), h being size / 2, and every other
\* cell Empty.
C12_InitialLayout ==
    (last.op = "initialise_board" /\ last.coord[1] % 2 = 0 /\ last.coord[1] >= 2)
    => LET size == last.coord[1]
           h == size \div 2
       IN /\ Len(board) = size
          /\ \A y \in 1..size : Len(board[y]) = size
          /\ \A y0 \in 0..(size - 1) : \A x0 \in 0..(size - 1) :
               board[y0 + 1][x0 + 1] =
                 IF <<x0, y0>> \in {<<h - 1, h - 1>>, <<h, h>>} THEN WHITE
                 ELSE IF <<x0, y0>> \in {<<h - 1, h>>, <<h, h - 1>>} THEN BLACK
                 ELSE EMPTY
          /\ count_pieces(board) = <<2, 2>>

\* initialise_board(6) has been called: a size that is neither the default one
\* nor the smallest.
C12_Witness ==
    /\ last.op = "initialise_board"
    /\ last.coord = <<6, 6>>
    /\ Len(board) = 6
    /\ board[3][3] = WHITE
    /\ board[3][4] = BLACK

\* The result text says what the counts of the board b say: Black wins when
\* Black has more discs, White wins when White has more, a draw when the
\* counts are equal.
SaysTheCounts(text, b) ==
    LET black == Cardinality({c \in (1..Len(b)) \X (1..Len(b)) :
                                b[c[2]][c[1]] = BLACK})
        white == Cardinality({c \in (1..Len(b)) \X (1..Len(b)) :
                                b[c[2]][c[1]] = WHITE})
    IN /\ text \in {"Black wins!", "White wins!", "It's a draw!"}
       /\ text = "Black wins!" <=> black > white
       /\ text = "White wins!" <=> white > black
       /\ text = "It's a draw!" <=> black = white

\* C13: when a game finishes, the result reported follows from the final
\* counts alone, by the same rule in both programs: the winner named in the
\* finished summary of the /move that ends a web game, and the result the
\* command-line loop prints when it stops, say Black wins iff Black has more
\* discs on the final board, White wins iff White has more, a draw iff the
\* counts are equal; the counts reported are those of the final board.
C13_ResultFollowsCounts ==
    /\ (last.op = "move" /\ last.kind = "applied" /\ game_finished)
         => /\ last.finished
            /\ SaysTheCounts(last.winner, board)
            /\ last.score = count_pieces(board)
    /\ (last.op = "cli" /\ last.at = "done")
         => /\ SaysTheCounts(last.result, board)
            /\ last.score = count_pieces(board)

\* A web game has just ended in a draw, 32 discs each on a full board.
C13_Witness ==
    /\ last.op = "move"
    /\ last.kind = "applied"
    /\ game_finished
    /\ last.winner = "It's a draw!"
    /\ last.score = <<32, 32>>
    /\ Len(move_history) = 60

\* C14: in a threaded server, for any interleaving of two /move requests:
\* every disc is placed by the colour whose turn it is, on a cell that is a
\* legal move for that colour on the board as it stands; the turn is advanced
\* from the colour whose turn it is, once for each move applied; and, once no
\* request is between placing its disc and recording it, move_history has one
\* entry for each disc placed (the discs on the board less the first four).
C14_InterleavedMovesAreSerialized ==
    /\ (last.op = "move" /\ last.kind = "placed")
         => (last.colour = last.turn /\ last.legal)
    /\ (last.op = "move" /\ last.kind = "turn")
         => last.colour = last.turn
    /\ (\A t \in DOMAIN inflight : inflight[t].pc # "append")
         => Len(move_history)
              = count_pieces(board)[1] + count_pieces(board)[2] - 4

\* The keys of game_state.
Session == <<board, current, move_history, game_finished>>

C16_FinishedIsAbsorbing ==
    [][/\ (game_finished /\ last'.op = "move")
            => /\ UNCHANGED Session
               /\ last'.kind \in {"over", "invalid"}
               /\ last'.numeric
                    => (last'.kind = "over" /\ last'.status = "success")
       /\ (game_finished /\ ~game_finished')
            => last'.op \in {"restart", "load"}]_vars

\* A finished game has been asked for one more move, with numbers for x and
\* y, and has answered that the game is over.
C16_Witness ==
    /\ game_finished
    /\ last.op = "move"
    /\ last.kind = "over"
    /\ last.numeric
    /\ is_game_finished(board)

\* C17: in every state of a web session, whatever requests led to it (moves
\* applied, moves turned down, moves asked of a finished game, restarts), the
\* board has BOARD_SIZE_DEFAULT rows of BOARD_SIZE_DEFAULT cells and every
\* cell holds one of Empty, Black and White.
C17_BoardStaysWellFormed ==
    /\ Len(board) = BOARD_SIZE_DEFAULT
    /\ \A y \in 1..Len(board) :
         /\ Len(board[y]) = BOARD_SIZE_DEFAULT
         /\ \A x \in 1..Len(board[y]) : board[y][x] \in {EMPTY, BLACK, WHITE}

\* The seventh move of a game has just been applied and has turned several
\* discs over.
C17_Witness ==
    /\ last.op = "move"
    /\ last.kind = "applied"
    /\ last.ret >= 2
    /\ Len(move_history) = 7
    /\ board # last.before

\* The colour a text names when blanks around it are ignored, and when the
\* case of its letters is ignored as well; a text that names none is returned
\* as it is.
Trimmed(text) ==
    CASE text \in {"Black", " Black "} -> "Black"
      [] text \in {"White", " White "} -> "White"
      [] text = " black " -> "black"
      [] OTHER -> text

CaseFolded(text) ==
    CASE Trimmed(text) \in {"Black", "black", "BLACK"} -> "Black"
      [] Trimmed(text) \in {"White", "white", "WHITE"} -> "White"
      [] OTHER -> Trimmed(text)

\* The answers for the colour argument of the last call are those the rules
\* give the colour named: the flips are the bracketed runs of that colour at
\* the cell, and the move is legal iff there are any; a text that names no
\* colour gets no flips and is not legal.
AnsweredAs(named) ==
    LET expected == IF named \in Canonical
                       /\ Held(board, last.coord[1], last.coord[2]) = "None"
                      THEN BracketedAll(board, named, last.coord[1], last.coord[2])
                    ELSE {}
    IN /\ ListSet(last.ret) = expected
       /\ last.legal <=> expected # {}

\* C18 (as stated): a colour argument that differs from Black or White only
\* by blanks around it or by the case of its letters is evaluated for
\* legality exactly as that colour, and any other text gets an empty flip
\* set.
C18_ColourIgnoresCaseAndBlanks ==
    (last.op = "_discs_to_flip" /\ "legal" \in DOMAIN last)
    => AnsweredAs(CaseFolded(last.colour))

\* C18 (amended): the colour argument is compared with Black and White after
\* the blanks around it are removed, and the case of its letters counts: a
\* text that differs from Black or White only by blanks around it is evaluated
\* for legality exactly as that colour; any other text, one that differs by
\* the case of a letter included, gets an empty flip set and is not legal.
C18_ColourIgnoresBlanksOnly ==
    (last.op = "_discs_to_flip" /\ "legal" \in DOMAIN last)
    => AnsweredAs(Trimmed(last.colour))

\* The padded colour " White " has been given flips, and so is legal, on a
\* board that has been played on.
C18_Witness ==
    /\ last.op = "_discs_to_flip"
    /\ "legal" \in DOMAIN last
    /\ last.colour = " White "
    /\ last.ret # << >>
    /\ last.legal
    /\ board # initialise_board(Len(board))

\* C19: on the initial board of side 8 the legal moves for Black are exactly
\* C4, D3, E6 and F5, the 1-based (3, 4), (4, 3), (5, 6) and (6, 5): no other
\* coordinate, on or off the board, is legal for Black, and the first move a
\* new web game applies is one of the four, recorded under its notation.
C19_BlackOpeningMoves ==
    /\ board = initialise_board(8)
         => /\ {p \in (0..9) \X (0..9) : legal_move("Black", p, board)}
                 = {<<3, 4>>, <<4, 3>>, <<5, 6>>, <<6, 5>>}
            /\ \A p \in {<<3, 4>>, <<4, 3>>, <<5, 6>>, <<6, 5>>} :
                 _discs_to_flip(board, "Black", p[1] - 1, p[2] - 1) # << >>
    /\ (last.op = "move" /\ last.kind = "applied" /\ Len(move_history) = 1)
         => /\ last.colour = "Black"
            /\ last.coord \in {<<3, 4>>, <<4, 3>>, <<5, 6>>, <<6, 5>>}
            /\ move_history[1] \in {<<"C", "4">>, <<"D", "3">>, <<"E", "6">>,
                                    <<"F", "5">>}

\* Black has opened a new game with C4, which was accepted and applied.
C19_Witness ==
    /\ last.op = "move"
    /\ last.kind = "applied"
    /\ last.before = initialise_board(8)
    /\ last.colour = "Black"
    /\ last.coord = <<3, 4>>
    /\ move_history = << <<"C", "4">> >>

\* C20 (as stated): on the initial board of side 8 White has no legal move:
\* has_any_legal_moves("White", board) is false until Black has moved.
C20_WhiteHasNoOpeningMove ==
    board = initialise_board(8) => ~has_any_legal_moves("White", board)

\* C20 (amended): on the initial board of side 8 White has legal moves as
\* Black has (has_any_legal_moves is true for both colours); White does not
\* move until Black has moved because a new game starts with Black as the
\* current player: the first move applied is Black's, and it hands the turn to
\* White.
C20_WhiteWaitsForItsTurn ==
    /\ board = initialise_board(8)
         => /\ has_any_legal_moves("White", board)
            /\ has_any_legal_moves("Black", board)
            /\ \E p \in (1..8) \X (1..8) :
                 legal_move("White", p, board) /\ ~legal_move("Black", p, board)
            /\ current = "Black"
    /\ (last.op = "move" /\ last.kind = "applied" /\ Len(move_history) = 1)
         => /\ last.before = initialise_board(8)
            /\ last.colour = "Black"
            /\ current = "White"

\* Black has opened a new game with D3 and the turn has gone to White, who
\* had legal moves on the initial board already.
C20_Witness ==
    /\ last.op = "move"
    /\ last.kind = "applied"
    /\ move_history = << <<"D", "3">> >>
    /\ current = "White"
    /\ has_any_legal_moves("White", last.before)
    /\ last.before = initialise_board(8)

\* C21: on the board initialise_board makes for side 8 both Black and White
\* have a legal move, and the legal moves for White are exactly C5, D6, E3 and
\* F4, the 1-based (3, 5), (4, 6), (5, 3) and (6, 4): each of them flips one
\* disc, no other coordinate, on or off the board, is legal for White, and a
\* move White applies to that board is one of the four.
C21_WhiteOpeningMoves ==
    /\ (last.op = "initialise_board" /\ Len(board) = 8)
         => /\ has_any_legal_moves("Black", board)
            /\ has_any_legal_moves("White", board)
            /\ {p \in (0..9) \X (0..9) : legal_move("White", p, board)}
                 = {<<3, 5>>, <<4, 6>>, <<5, 3>>, <<6, 4>>}
            /\ {coord_to_notation(p[1], p[2]) :
                  p \in {q \in (1..8) \X (1..8) : legal_move("White", q, board)}}
                 = {<<"C", "5">>, <<"D", "6">>, <<"E", "3">>, <<"F", "4">>}
            /\ \A p \in {<<3, 5>>, <<4, 6>>, <<5, 3>>, <<6, 4>>} :
                 Len(_discs_to_flip(board, "White", p[1] - 1, p[2] - 1)) = 1
    /\ (last.op = "apply_move" /\ last.colour = "White"
          /\ last.before = initialise_board(8))
         => /\ last.coord \in {<<3, 5>>, <<4, 6>>, <<5, 3>>, <<6, 4>>}
            /\ last.ret = 1

\* White has played E3 on the initial board of side 8 and has turned one disc
\* over.
C21_Witness ==
    /\ last.op = "apply_move"
    /\ last.colour = "White"
    /\ last.coord = <<5, 3>>
    /\ last.before = initialise_board(8)
    /\ last.ret = 1
    /\ count_pieces(board) = <<1, 4>>

\* C22: on the initial board of side 8 C4, the 1-based (3, 4), is a legal move
\* for Black, and when Black plays it exactly one disc is flipped (D4), the
\* board then holds 4 Black discs and 1 White disc, and the next player to
\* move is White.
C22_BlackOpensC4 ==
    /\ board = initialise_board(8)
         => /\ legal_move("Black", <<3, 4>>, board)
            /\ _discs_to_flip(board, "Black", 2, 3) = << <<3, 3>> >>
            /\ ApplyMoveCall("Black", <<3, 4>>, board).ret = 1
            /\ count_pieces(ApplyMoveCall("Black", <<3, 4>>, board).board)
                 = <<4, 1>>
    /\ (last.op = "move" /\ last.kind = "applied"
          /\ last.before = initialise_board(8) /\ last.coord = <<3, 4>>)
         => /\ last.colour = "Black"
            /\ last.ret = 1
            /\ count_pieces(board) = <<4, 1>>
            /\ board[4][3] = BLACK
            /\ board[4][4] = BLACK
            /\ current = "White"
            /\ has_any_legal_moves("White", board)
            /\ ~game_finished

\* The request /move?x=3&y=4 has been applied to a new game: one disc flipped,
\* White to move.
C22_Witness ==
    /\ last.op = "move"
    /\ last.kind = "applied"
    /\ last.before = initialise_board(8)
    /\ last.coord = <<3, 4>>
    /\ last.ret = 1
    /\ current = "White"
    /\ count_pieces(board) = <<4, 1>>

\* C23: when E6, F4, E3, F6, G5, D6, E7, F5, C5 are played from the initial
\* board, Black first and the colours alternating, every move is legal for
\* its mover, the game is not over after any of the first eight, and right
\* after the ninth the game is over with no White disc left and more Black
\* discs than White ones: Black wins. It is so in the web adapter and in the
\* command-line loop.
C23_FastestGame ==
    LET k == Len(move_history)
        mover == IF k % 2 = 0 THEN "Black" ELSE "White"
    IN (k <= 9 /\ move_history = SubSeq(FastestGame, 1, k)
          /\ last.op \in {"new_game", "restart", "move", "cli"})
       => /\ k < 9
               => /\ ~is_game_finished(board)
                  /\ ~game_finished
                  /\ current = mover
                  /\ legal_move(mover, CellNamed(FastestGame[k + 1]), board)
                  /\ last.op = "cli" => last.at # "done"
          /\ (k >= 1 /\ last.op = "move" /\ last.kind = "applied")
               => /\ last.colour = other_colour(mover)
                  /\ last.coord = CellNamed(FastestGame[k])
                  /\ last.finished <=> k = 9
          /\ k = 9
               => /\ is_game_finished(board)
                  /\ count_pieces(board)[2] = 0
                  /\ count_pieces(board)[1] > count_pieces(board)[2]
                  /\ last.op = "move"
                       => (game_finished /\ (last.kind = "applied"
                                               => last.winner = "Black wins!"))
                  /\ (last.op = "cli" /\ last.at = "prompt") => FALSE
                  /\ (last.op = "cli" /\ last.at = "done")
                       => last.result = "Black wins!"

\* The ninth move, C5, has just been applied by the web adapter: the game is
\* over and White has no disc left.
C23_Witness ==
    /\ move_history = FastestGame
    /\ last.op = "move"
    /\ last.kind = "applied"
    /\ last.coord = <<3, 5>>
    /\ last.finished
    /\ game_finished
    /\ count_pieces(board)[2] = 0

\* C24: new_game(), called by /restart and by /load when there is no save
\* file, leaves the session as exactly the standard initial board in a board
\* object that is not the one held before, Black to move, an empty history,
\* game_finished false and no other key, whatever the session was; when the
\* call before it was a restart too, the second call leaves the contents of
\* the session as the first one did.
C24_NewGameResets ==
    [][(last'.op = "restart" \/ (last'.op = "load" /\ last'.kind = "missing"))
         => /\ board' = initialise_board(BOARD_SIZE_DEFAULT)
            /\ board_obj' # board_obj
            /\ current' = "Black"
            /\ move_history' = << >>
            /\ game_finished' = FALSE
            /\ extra' = {}
            /\ last.op = "restart"
                 => /\ board' = board
                    /\ current' = current
                    /\ move_history' = move_history
                    /\ game_finished' = game_finished
                    /\ extra' = extra]_vars

\* A restart has acted on a session whose board object was made by an
\* earlier new_game() or /load, with a save file that holds other keys.
C24_Witness ==
    /\ last.op = "restart"
    /\ board_obj = 1
    /\ savefile.kind = "json"
    /\ savefile.doc.extra # {}
    /\ extra = {}
    /\ board = initialise_board(BOARD_SIZE_DEFAULT)

\* C25: when /load finds no usable save, the file being missing or holding
\* text that is no JSON document, the request is answered with status fail
\* and the session becomes a new game: the initial board, Black to move, an
\* empty history and game_finished false, whatever the session was.
C25_NoUsableSaveStartsNewGame ==
    [][(last'.op = "load" /\ savefile.kind \in {"missing", "text"})
         => /\ last'.status = "fail"
            /\ board' = initialise_board(BOARD_SIZE_DEFAULT)
            /\ current' = "Black"
            /\ move_history' = << >>
            /\ game_finished' = FALSE]_vars

\* C26: after a /load that read a document, game_finished is
\* is_game_finished of the loaded board, whatever the document held as
\* game_finished, and the board, the current player and the move history are
\* the document's.
C26_LoadRecomputesFinished ==
    [][(last'.op = "load" /\ last'.kind = "loaded")
         => /\ board' = savefile.doc.board
            /\ current' = savefile.doc.current
            /\ move_history' = savefile.doc.move_history
            /\ game_finished' = is_game_finished(board')]_vars

\* A document saved as not finished was loaded, its board is the final
\* position of the shortest game, and the session is finished.
C26_Witness ==
    /\ savefile.kind = "json"
    /\ last.op = "load"
    /\ last.kind = "loaded"
    /\ savefile.doc.game_finished = "false"
    /\ board = FastestGameBoard
    /\ move_history = FastestGame
    /\ game_finished

\* C27: a pass is told to the user exactly when it happens. The message of
\* an applied /move holds the notice that the opponent has no legal moves
\* and the mover plays again iff, on the board after the move, the opponent
\* has no legal move and the mover has one; the command-line loop prints
\* that the player to move passes iff that player has no legal move and the
\* other player has one.
C27_PassIsSurfaced ==
    [][LET CanMove(c, b) == \E p \in (1..Len(b)) \X (1..Len(b)) :
                               legal_move(c, p, b)
       IN /\ (last'.op = "move" /\ last'.kind = "applied")
               => (last'.pass <=> /\ ~CanMove(other_colour(last'.colour), board')
                                  /\ CanMove(last'.colour, board'))
          /\ (last.op = "cli" /\ last.at = "loop")
               => ((last'.said = "passes")
                     <=> /\ ~CanMove(current, board)
                         /\ CanMove(other_colour(current), board))]_vars

\* The command-line loop has printed that Black passes, after White's fourth
\* move of the game D3 C3 B3 B2 F5 A3 A1 C1, and White is prompted again.
C27_Witness ==
    /\ last.op = "cli"
    /\ last.at = "prompt"
    /\ last.said = "passes"
    /\ current = "White"
    /\ Len(move_history) = 8
    /\ ~has_any_legal_moves("Black", board)

\* C28: move_history is the ordered list of the applied moves. A /move that
\* is applied appends exactly one entry, the column letter and the row number
\* of the cell played (x = 3, y = 4 gives C4); a /move that is rejected or
\* made on a finished game leaves the history as it is; and in a game played
\* from new_game the length of the history is the number of discs on the
\* board less 4.
C28_HistoryIsTheAppliedMoves ==
    [][/\ last'.op = "move"
          => IF last'.kind = "applied"
               THEN /\ Len(move_history') = Len(move_history) + 1
                    /\ SubSeq(move_history', 1, Len(move_history))
                         = move_history
                    /\ move_history'[Len(move_history')]
                         = <<UpperCase[last'.coord[1]],
                             Str(last'.coord[2])[1]>>
                    /\ board'[last'.coord[2]][last'.coord[1]] = last'.colour
                    /\ (last'.coord = <<3, 4>>
                          => move_history'[Len(move_history')] = <<"C", "4">>)
             ELSE move_history' = move_history
       /\ Len(move_history')
            = count_pieces(board')[1] + count_pieces(board')[2] - 4]_vars

\* A move on the finished shortest game has been turned down, and the history
\* is still its nine moves, the last one C5, with 13 discs on the board.
C28_Witness ==
    /\ last.op = "move"
    /\ last.kind = "over"
    /\ Len(move_history) = 9
    /\ move_history[9] = <<"C", "5">>
    /\ count_pieces(board)[1] + count_pieces(board)[2] = 13

\* C30: apply_move reads the colour as legal_move does. For every colour
\* string and cell that legal_move accepts, a string padded with blanks such
\* as " Black " among them, apply_move puts a disc of the canonical colour of
\* that string on the cell and turns the discs of the flip list, which were
\* of the opposing colour, to that colour.
C30_ApplyReadsColourAsLegalMove ==
    ( /\ last.op = "apply_move"
      /\ legal_move(last.colour, last.coord, last.before) )
    => LET me == Strip(last.colour)
           x0 == last.coord[1] - 1
           y0 == last.coord[2] - 1
           F  == ListSet(_discs_to_flip(last.before, last.colour, x0, y0))
       IN /\ ~last.raised
          /\ board[y0 + 1][x0 + 1] = me
          /\ \A f \in F :
               /\ last.before[f[2] + 1][f[1] + 1] = other_colour(me)
               /\ board[f[2] + 1][f[1] + 1] = me

\* The text between its first and its last character that is no whitespace.
Core(text) ==
    LET Inked == {k \in 1..Len(text) : text[k] \notin Whitespace}
    IN IF Inked = {} THEN << >>
       ELSE SubSeq(text, CHOOSE k \in Inked : \A m \in Inked : k <= m,
                         CHOOSE k \in Inked : \A m \in Inked : m <= k)

\* int() reads the text w as the number v of 1..9: whitespace around it and a
\* plus sign before it apart, w is the digit of v after zeros and single
\* underscores, none of them first and no two of them in a row.
RowDenotes(w, v) ==
    LET c == Core(w)
        u == IF c # << >> /\ Head(c) = "+" THEN Tail(c) ELSE c
    IN /\ u # << >>
       /\ <<u[Len(u)]>> = Str(v)
       /\ Head(u) # "_"
       /\ \A k \in 1..(Len(u) - 1) :
            /\ u[k] \in {"0", "_"}
            /\ ~(u[k] = "_" /\ u[k + 1] = "_")

\* The text t names the column n and the row v: its first character is the
\* n-th letter in either case, and the rest is read by int() as v.
Names(t, n, v) ==
    /\ t # << >>
    /\ Head(t) \in {UpperCase[n], LowerCase[n]}
    /\ RowDenotes(Tail(t), v)

\* The call or the turn of the prompt loop kept in last has answered the text
\* t: the pair (n, v) when t names a column of A-H and a row of 1..8, and
\* ValueError, which the prompt loop answers by asking again, when it names
\* none; the prompt loop is left by SystemExit on q, quit and exit.
AnswersText(t) ==
    LET Named == \E n \in 1..8, v \in 1..8 : Names(t, n, v)
        Pair == CHOOSE p \in (1..8) \X (1..8) : Names(t, p[1], p[2])
    IN /\ last.op = "parse_letter_number_input"
          => IF Named THEN last.ok /\ <<last.x, last.y>> = Pair
             ELSE ~last.ok
       /\ last.op = "cli_coords_input"
          => IF Lower(Core(last.raw)) \in {<<"q">>, <<"q", "u", "i", "t">>,
                                            <<"e", "x", "i", "t">>}
               THEN last.outcome = "exit"
             ELSE IF Named
               THEN last.outcome = "returned" /\ <<last.x, last.y>> = Pair
             ELSE last.outcome = "prompt"

\* C29 as stated: parse_letter_number_input answers the text left when every
\* whitespace character and every comma is removed, case ignored: the pair
\* (column, row) when its first character is a letter of A-H and the rest
\* parses as an integer of 1..8, such as (4, 6) for "  d  6 ", and ValueError
\* for every other text, which the prompt loop turns into a new prompt.
C29_ParseAfterRemovingWhitespace ==
    last.op \in {"parse_letter_number_input", "cli_coords_input"}
    => AnswersText(SelectSeq(last.raw,
                             LAMBDA c : c \notin Whitespace \cup {","}))

\* C29, amended: parse_letter_number_input answers the text left when the
\* whitespace at both ends is stripped and then every comma and every blank
\* is removed, a tab inside staying where it is: the pair (column, row) when
\* the first character left is a letter of A-H in either case and the rest
\* is read by int() as a number of 1..8, and ValueError for every other
\* text, which the prompt loop turns into a new prompt.
C29_ParseAfterRemovingBlanks ==
    last.op \in {"parse_letter_number_input", "cli_coords_input"}
    => AnswersText(SelectSeq(Core(last.raw),
                             LAMBDA c : c \notin {" ", ","}))

\* The prompt loop has asked again after a comma, a tab, A and 6 were typed:
\* the tab is the first character left.
C29_Witness ==
    /\ last.op = "cli_coords_input"
    /\ last.raw = <<",", "\t", "A", "6">>
    /\ last.outcome = "prompt"

\* The number of empty cells of the board b.
Empties(b) ==
    Cardinality({c \in (1..Len(b)) \X (1..Len(b)) : b[c[2]][c[1]] = EMPTY})

\* C33: a game started from the initial board comes to its end. Every move
\* applied, by /move or by the command-line loop, leaves exactly one empty
\* cell less, so that no more than 8 * 8 - 4 = 60 moves are applied; when the
\* last empty cell is taken /move marks the game finished; and the counter
\* moves_remaining of the command-line loop is the number of empty cells all
\* along, so that it is 0 only on a full board.
C33_GameTerminates ==
    [][/\ ( \/ last'.op = "move" /\ last'.kind = "applied"
            \/ last'.op = "cli" /\ moves_remaining' # moves_remaining )
          => /\ Empties(board') = Empties(board) - 1
             /\ Len(move_history') = Len(move_history) + 1
             /\ Len(move_history')
                  <= BOARD_SIZE_DEFAULT * BOARD_SIZE_DEFAULT - 4
       /\ (last'.op = "move" /\ Empties(board') = 0) => game_finished'
       /\ last'.op = "cli"
          => /\ moves_remaining' = Empties(board')
             /\ (moves_remaining' = 0 => last'.at = "done")]_vars

\* The command-line loop has stopped after the sixtieth move of a game, the
\* counter at 0 and the board full.
C33_Witness ==
    /\ last.op = "cli"
    /\ last.at = "done"
    /\ moves_remaining = 0
    /\ Len(move_history) = 60
    /\ Empties(board) = 0

\* The colour c has a legal move on the board b: some cell of b is one.
SomeMove(c, b) ==
    \E p \in (1..Len(b)) \X (1..Len(b)) : legal_move(c, p, b)

\* C31: in every state of a web session that starts with new_game and goes
\* on by /move, /save, /load of a file that /save wrote, and /restart, the
\* stored game_finished is true iff neither Black nor White has a legal move
\* on the stored board.
C31_FinishedFlagFollowsBoard ==
    game_finished <=> (~SomeMove("Black", board) /\ ~SomeMove("White", board))

\* A game saved after its ninth and last move has been loaded: the session
\* is finished and no colour has a move.
C31_Witness ==
    /\ last.op = "load"
    /\ last.kind = "loaded"
    /\ game_finished
    /\ Len(move_history) = 9
    /\ ~SomeMove("Black", board)
    /\ ~SomeMove("White", board)

\* C32: no turn is stuck. In every state of a web session that starts with
\* new_game and goes on by /move, /save, /load of a file that /save wrote and
\* /restart, if game_finished is false the current player has a legal move
\* on the board; and whenever the command-line loop asks for a coordinate,
\* the player it asks has one.
C32_NoStuckTurn ==
    /\ (last.op \in {"new_game", "move", "restart", "save", "load"}
          /\ ~game_finished)
         => SomeMove(current, board)
    /\ (last.op = "cli" /\ last.at = "prompt") => SomeMove(current, board)

\* A position saved after White's fourth move, which leaves Black without a
\* move, has been loaded: the game is in play and it is White's turn.
C32_Witness ==
    /\ last.op = "load"
    /\ last.kind = "loaded"
    /\ ~game_finished
    /\ current = "White"
    /\ Len(move_history) = 8
    /\ ~SomeMove("Black", board)
    /\ SomeMove("White", board)

\* C35: a save and a load are a round trip. /save writes the board, the
\* current player, the move history and game_finished of the session as
\* they are and changes none of them; /move, /restart and /load leave the
\* file as it is; and /load of the file sets the board, the current player
\* and the move history to those of the file and game_finished to the value
\* the file holds, which is the value it had when the file was written.
C35_SaveLoadRoundTrip ==
    [][/\ last'.op = "save"
          => /\ savefile'.kind = "json"
             /\ savefile'.doc.board = board
             /\ savefile'.doc.current = current
             /\ savefile'.doc.move_history = move_history
             /\ (savefile'.doc.game_finished = "true") <=> game_finished
             /\ UNCHANGED <<board, current, move_history, game_finished>>
       /\ last'.op \in {"move", "restart", "load"} => savefile' = savefile
       /\ (last'.op = "load" /\ savefile.kind = "json")
          => /\ board' = savefile.doc.board
             /\ current' = savefile.doc.current
             /\ move_history' = savefile.doc.move_history
             /\ game_finished' = (savefile.doc.game_finished = "true")]_vars

\* A load has brought back a game saved after its fourth move.
C35_Witness ==
    /\ last.op = "load"
    /\ last.kind = "loaded"
    /\ savefile.kind = "json"
    /\ Len(savefile.doc.move_history) = 4
    /\ move_history = savefile.doc.move_history
    /\ board = savefile.doc.board
    /\ current = savefile.doc.current
    /\ ~game_finished

\* C34: the command-line loop and /move resolve the turn alike. Along every
\* sequence of legal moves from the initial board, given to both, the
\* command-line game takes each move /move has applied as a legal move of
\* the player it prompts, and after each move the two hold the same board,
\* agree on whether the game is over, and, while it is not, agree on the
\* colour to move next.
C34_SameTurnResolver ==
    LET cli == inflight[1]
    IN /\ cli.said \notin {"Illegal move", "Invalid input"}
       /\ IF cli.plies = Len(move_history)
            THEN /\ cli.board = board
                 /\ (cli.at = "done") <=> game_finished
                 /\ ~game_finished
                      => /\ cli.at = "prompt"
                         /\ cli.current = current
                 /\ cli.remaining = 60 - Len(move_history)
          ELSE /\ cli.plies + 1 = Len(move_history)
               /\ cli.at = "prompt"

\* Both programs have taken White's fourth move of D3 C3 B3 B2 F5 A3 A1 C1,
\* after which Black has no move: both have White to move again, the
\* command-line game after printing that Black passes.
C34_Witness ==
    /\ inflight[1].plies = 8
    /\ Len(move_history) = 8
    /\ inflight[1].said = "passes"
    /\ inflight[1].current = "White"
    /\ current = "White"
    /\ ~game_finished

\* C7: in the /move handler, right after a legal move of the current colour
\* is applied: if the opponent has a legal move the stored current player is
\* the opponent; otherwise, if the mover has one, it is the mover again;
\* otherwise the game is marked finished.
C7_TurnResolution ==
    (last.op = "move" /\ last.kind = "applied")
    => LET mover == last.colour
           opponent == IF mover = "Black" THEN "White" ELSE "Black"
           CanMove(c) == \E p \in (1..Len(board)) \X (1..Len(board)) :
                            legal_move(c, p, board)
       IN IF CanMove(opponent) THEN current = opponent
          ELSE IF CanMove(mover) THEN current = mover
          ELSE game_finished

\* A move has been applied that leaves the opponent without a move, and the
\* mover is to play again.
C7_Witness ==
    /\ last.op = "move"
    /\ last.kind = "applied"
    /\ current = last.colour
    /\ ~has_any_legal_moves(other_colour(last.colour), board)
    /\ ~game_finished

=============================================================================
